---- MODULE Spec2Model ----
(***************************************************************************)
(* Model of the news discovery backend (bvsbharat/Mzon, src/backend):      *)
(* the article aggregation, deduplication and ranking pipeline of          *)
(* NewsSearchAgent and TagFilterAgent.                                     *)
(*                                                                         *)
(* Python strings are sequences of one-character strings, so that          *)
(* str.lower(), str.split(), " ".join() and the substring test `in` are    *)
(* computed and not assumed.  Python floats that the code compares are     *)
(* exact rationals here (records [n, d] in lowest terms).                  *)
(***************************************************************************)
EXTENDS Integers, Sequences, FiniteSets, TLC

VARIABLES dd, sa, tf, rk, sc, sq, wm, orc

vars == <<dd, sa, tf, rk, sc, sq, wm, orc>>

\* the variables other than the one a component owns
not_dd == <<sa, tf, rk, sc, sq, wm, orc>>
not_sa == <<dd, tf, rk, sc, sq, wm, orc>>
not_tf == <<dd, sa, rk, sc, sq, wm, orc>>
not_rk == <<dd, sa, tf, sc, sq, wm, orc>>
not_sc == <<dd, sa, tf, rk, sq, wm, orc>>
not_sq == <<dd, sa, tf, rk, sc, wm, orc>>
not_wm == <<dd, sa, tf, rk, sc, sq, orc>>
not_orc == <<dd, sa, tf, rk, sc, sq, wm>>

(***************************************************************************)
(* Bounds of the model.                                                    *)
(***************************************************************************)
\* longest input sequence handed to _remove_duplicates by the harness
MaxLen == 3
\* most items one source client returns in one call (world "catalog")
MaxPerSource == 1
\* longest `articles` list drawn freely from the catalog for
\* TagFilterAgent.execute and for the ranking harness
MaxArticles == 3
\* most times the ranking harness ranks the same list by one path
MaxRuns == 2
\* longest `articles` list handed to SocialContentAgent.execute
MaxSocialArticles == 1
\* most WebSocket objects that call WebSocketManager.connect
MaxSockets == 3
\* most sends of WebSocketManager that await websocket.send_text at once
MaxInFlight == 2
\* most calls of AgentOrchestrator.start_discovery
MaxSessions == 2

(***************************************************************************)
(* Python values.                                                          *)
(***************************************************************************)
\* an Optional value is None or Some(v): the empty or the one-element sequence
None == <<>>

Some(v) == <<v>>

Range(s) == {s[i] : i \in DOMAIN s}

SeqsUpTo(S, n) == UNION {[1..k -> S] : k \in 0..n}

Max(a, b) == IF a >= b THEN a ELSE b

Min(a, b) == IF a <= b THEN a ELSE b

(***************************************************************************)
(* Python floats as exact rationals [n, d], d > 0, in lowest terms.        *)
(***************************************************************************)
RECURSIVE GCD(_, _)
GCD(a, b) == IF b = 0 THEN a ELSE GCD(b, a % b)

Abs(x) == IF x < 0 THEN -x ELSE x

Rat(n, d) ==
    LET g == GCD(Abs(n), d)
    IN IF n = 0 THEN [n |-> 0, d |-> 1] ELSE [n |-> n \div g, d |-> d \div g]

RInt(k) == [n |-> k, d |-> 1]

RAdd(a, b) == Rat(a.n * b.d + b.n * a.d, a.d * b.d)

RMul(a, b) == Rat(a.n * b.n, a.d * b.d)

RLt(a, b) == a.n * b.d < b.n * a.d

RLe(a, b) == a.n * b.d <= b.n * a.d

RMin(a, b) == IF RLe(a, b) THEN a ELSE b

RMax(a, b) == IF RLe(b, a) THEN a ELSE b

(***************************************************************************)
(* Python str operations on sequences of characters.                       *)
(***************************************************************************)
UpperToLower ==
    ("A" :> "a") @@ ("B" :> "b") @@ ("C" :> "c") @@ ("D" :> "d") @@ ("E" :> "e") @@
    ("F" :> "f") @@ ("G" :> "g") @@ ("H" :> "h") @@ ("I" :> "i") @@ ("J" :> "j") @@
    ("K" :> "k") @@ ("L" :> "l") @@ ("M" :> "m") @@ ("N" :> "n") @@ ("O" :> "o") @@
    ("P" :> "p") @@ ("Q" :> "q") @@ ("R" :> "r") @@ ("S" :> "s") @@ ("T" :> "t") @@
    ("U" :> "u") @@ ("V" :> "v") @@ ("W" :> "w") @@ ("X" :> "x") @@ ("Y" :> "y") @@
    ("Z" :> "z")

\* str.lower()
Lower(s) == [i \in DOMAIN s |-> IF s[i] \in DOMAIN UpperToLower THEN UpperToLower[s[i]] ELSE s[i]]

IsSpace(c) == c \in {" ", "\t", "\n"}

\* the least element of a non-empty set of integers
SetMin(S) == CHOOSE k \in S : \A m \in S : k <= m

RECURSIVE SplitFrom(_, _)
\* the words of s from position i on, one word per turn
SplitFrom(s, i) ==
    LET starts == {k \in i..Len(s) : ~IsSpace(s[k])}
    IN IF starts = {} THEN <<>>
       ELSE LET b == SetMin(starts)
                ends == {k \in b..Len(s) : IsSpace(s[k])}
                e == IF ends = {} THEN Len(s) + 1 ELSE SetMin(ends)
            IN <<SubSeq(s, b, e - 1)>> \o SplitFrom(s, e)

\* str.split() with no separator: runs of whitespace separate, no empty words
Split(s) == SplitFrom(s, 1)

RECURSIVE Join(_, _)
\* sep.join(parts)
Join(parts, sep) ==
    IF parts = <<>> THEN <<>>
    ELSE IF Len(parts) = 1 THEN parts[1]
    ELSE parts[1] \o sep \o Join(Tail(parts), sep)

\* sub in text
Contains(sub, text) ==
    \E k \in 0..(Len(text) - Len(sub)) : SubSeq(text, k + 1, k + Len(sub)) = sub

(***************************************************************************)
(* models/news_models.py: NewsItem and ProcessedNewsItem.                  *)
(* published_at is None, Aware (a datetime that carries a tzinfo, as       *)
(* rss_parser.py and web_scraper.py build them) or Naive(h), a naive       *)
(* datetime h hours before the datetime.now() of the run.                  *)
(***************************************************************************)
Aware == Some([aware |-> TRUE, hours_old |-> 0])

Naive(h) == Some([aware |-> FALSE, hours_old |-> h])

NewsItem(id, title, description, published_at) ==
    [id |-> id, title |-> title, description |-> description,
     content |-> None, image_url |-> None, source |-> <<>>,
     published_at |-> published_at, category |-> None, tags |-> <<>>,
     credibility_score |-> None, engagement_score |-> None,
     relevance_score |-> None, hashtags |-> <<>>,
     summary |-> None, key_points |-> <<>>, trending_potential |-> None]

(***************************************************************************)
(* NewsSearchAgent._remove_duplicates                                      *)
(***************************************************************************)
\* `similarity > 0.7` with similarity = overlap / max(len, len); the
\* division raises ZeroDivisionError when both word sets are empty
SimilarityThresholdNum == 7
SimilarityThresholdDen == 10

DivisionByZero(title_words, seen_words) ==
    Max(Cardinality(title_words), Cardinality(seen_words)) = 0

\* IsSimilar with >= in place of >
IsSimilarGE(title_words, seen_words) ==
    LET overlap == Cardinality(title_words \cap seen_words)
        m == Max(Cardinality(title_words), Cardinality(seen_words))
    IN overlap * SimilarityThresholdDen >= SimilarityThresholdNum * m

IsSimilar(title_words, seen_words) ==
    LET overlap == Cardinality(title_words \cap seen_words)
        m == Max(Cardinality(title_words), Cardinality(seen_words))
    IN overlap * SimilarityThresholdDen > SimilarityThresholdNum * m

\* DedupStep with the later of two near-duplicates replacing the earlier
DedupStepLastWins(st, article) ==
    LET title_words == Range(Split(Lower(article.title)))
        similar(t) == IsSimilar(title_words, Range(Split(Lower(t))))
        is_duplicate == \E seen_title \in st.seen_titles : similar(seen_title)
    IN IF st.raised THEN st
       ELSE IF \E seen_title \in st.seen_titles :
                   DivisionByZero(title_words, Range(Split(seen_title)))
       THEN [st EXCEPT !.raised = TRUE]
       ELSE [st EXCEPT !.unique_articles =
                           Append(SelectSeq(@, LAMBDA a : ~similar(a.title)), article),
                       !.seen_titles =
                           {t \in @ : ~similar(t)} \cup {Lower(article.title)}]

\* the body of the loop over articles: the running state is
\* [raised, unique_articles, seen_titles]
DedupStep(st, article) ==
    LET title_words == Range(Split(Lower(article.title)))
        is_duplicate == \E seen_title \in st.seen_titles :
                            IsSimilar(title_words, Range(Split(seen_title)))
    IN IF st.raised THEN st
       ELSE IF \E seen_title \in st.seen_titles :
                   DivisionByZero(title_words, Range(Split(seen_title)))
       THEN [st EXCEPT !.raised = TRUE]
       ELSE IF is_duplicate THEN st
       ELSE [st EXCEPT !.unique_articles = Append(@, article),
                       !.seen_titles = @ \cup {Lower(article.title)}]

RECURSIVE DedupLoop(_, _, _)
DedupLoop(st, articles, i) ==
    IF i > Len(articles) THEN st
    ELSE DedupLoop(DedupStep(st, articles[i]), articles, i + 1)

\* _remove_duplicates with the loop starting at the second article
_remove_duplicates_skip_first(articles) ==
    LET st == DedupLoop([raised |-> FALSE, unique_articles |-> <<>>,
                         seen_titles |-> {}], articles, 2)
    IN [raised |-> st.raised,
        unique_articles |-> IF st.raised THEN <<>> ELSE st.unique_articles]

\* returns [raised |-> a ZeroDivisionError left the function,
\*          unique_articles |-> the list returned otherwise]
_remove_duplicates(articles) ==
    LET st == DedupLoop([raised |-> FALSE, unique_articles |-> <<>>,
                         seen_titles |-> {}], articles, 1)
    IN [raised |-> st.raised,
        unique_articles |-> IF st.raised THEN <<>> ELSE st.unique_articles]

(***************************************************************************)
(* NewsSearchAgent._rank_articles                                          *)
(***************************************************************************)
\* key=lambda x: x.relevance_score or 0
SortKey(x) == IF x.relevance_score = None THEN RInt(0) ELSE x.relevance_score[1]

\* InsertDesc placing x before the elements of equal key
InsertDescTiesFirst(sorted, x) ==
    LET k == Cardinality({i \in DOMAIN sorted : RLt(SortKey(x), SortKey(sorted[i]))})
    IN SubSeq(sorted, 1, k) \o <<x>> \o SubSeq(sorted, k + 1, Len(sorted))

\* one insertion of a stable descending sort: x goes behind every element
\* whose key is at least its own
InsertDesc(sorted, x) ==
    LET k == Cardinality({i \in DOMAIN sorted : RLe(SortKey(x), SortKey(sorted[i]))})
    IN SubSeq(sorted, 1, k) \o <<x>> \o SubSeq(sorted, k + 1, Len(sorted))

RECURSIVE SortLoop(_, _, _)
SortLoop(sorted, articles, i) ==
    IF i > Len(articles) THEN sorted
    ELSE SortLoop(InsertDesc(sorted, articles[i]), articles, i + 1)

\* sorted(articles, key=lambda x: x.relevance_score or 0, reverse=True):
\* Python's sort is stable, also with reverse=True
SortedByRelevance(articles) == SortLoop(<<>>, articles, 1)

\* set(word.lower() for tag in tags for word in tag.split())
TagWords(tags) == UNION {{Lower(word) : word \in Range(Split(tag))} : tag \in Range(tags)}

\* SearchScore adding the new score onto the relevance_score the article has
SearchScoreAccumulating(article, tag_words) ==
    LET title_words == Range(Split(Lower(article.title)))
        desc_words == IF article.description # <<>>
                      THEN Range(Split(Lower(article.description))) ELSE {}
        content_words == title_words \cup desc_words
        overlap == Cardinality(content_words \cap tag_words)
        relevance == IF tag_words # {} THEN Rat(overlap, Cardinality(tag_words))
                     ELSE RInt(0)
        score == RMin(RAdd(SortKey(article), RMul(relevance, RInt(100))), RInt(100))
    IN IF article.published_at = None THEN score
       ELSE LET hours_old == article.published_at[1].hours_old
                freshness_boost == RMax(RInt(0), Rat((24 - hours_old) * 10, 24))
            IN RMin(RAdd(score, freshness_boost), RInt(100))

\* the relevance_score lines 244-257 assign to one article
SearchScore(article, tag_words) ==
    LET title_words == Range(Split(Lower(article.title)))
        desc_words == IF article.description # <<>>
                      THEN Range(Split(Lower(article.description))) ELSE {}
        content_words == title_words \cup desc_words
        overlap == Cardinality(content_words \cap tag_words)
        relevance == IF tag_words # {} THEN Rat(overlap, Cardinality(tag_words))
                     ELSE RInt(0)
        score == RMin(RMul(relevance, RInt(100)), RInt(100))
    IN IF article.published_at = None THEN score
       ELSE LET hours_old == article.published_at[1].hours_old
                freshness_boost == RMax(RInt(0), Rat((24 - hours_old) * 10, 24))
            IN RMin(RAdd(score, freshness_boost), RInt(100))

\* _rank_articles dropping what scores below the filter agent's floor of 30
_rank_articles_with_floor(articles, tags) ==
    LET tag_words == TagWords(tags)
        raised == \E i \in DOMAIN articles :
                      articles[i].published_at # None /\ articles[i].published_at[1].aware
        scored == [i \in DOMAIN articles |->
                      [articles[i] EXCEPT !.relevance_score =
                                              Some(SearchScore(articles[i], tag_words))]]
    IN [raised |-> raised,
        articles |-> IF raised THEN <<>>
                     ELSE SelectSeq(SortedByRelevance(scored),
                                    LAMBDA x : RLe(RInt(30), SortKey(x)))]

\* returns [raised |-> a TypeError left the function (an aware published_at),
\*          articles |-> the sorted list returned otherwise]
_rank_articles(articles, tags) ==
    LET tag_words == TagWords(tags)
        raised == \E i \in DOMAIN articles :
                      articles[i].published_at # None /\ articles[i].published_at[1].aware
        scored == [i \in DOMAIN articles |->
                      [articles[i] EXCEPT !.relevance_score =
                                              Some(SearchScore(articles[i], tag_words))]]
    IN [raised |-> raised,
        articles |-> IF raised THEN <<>> ELSE SortedByRelevance(scored)]

(***************************************************************************)
(* What the three sources can hand back.  In the world "catalog" a client  *)
(* returns up to MaxPerSource items of SearchCatalog; in the world         *)
(* "scenario" the sources hold the lists of the end-to-end scenario of     *)
(* spec.md 8 (5, 5 and 5 items, the second list near-duplicates of the     *)
(* first).  In both a client may raise.                                    *)
(***************************************************************************)
S_ai_lab == NewsItem(0, <<"A", "I", " ", "l", "a", "b">>, <<"s", "t", "a", "r", "t", "u", "p", " ", "n", "e", "w", "s">>, Naive(0))
S_fund == NewsItem(0, <<"s", "t", "a", "r", "t", "u", "p", " ", "f", "u", "n", "d">>, <<>>, Naive(30))
S_chip == NewsItem(0, <<"c", "h", "i", "p", " ", "f", "a", "b">>, <<"a", "i", " ", "c", "h", "i", "p", "s">>, Aware)
S_blank == NewsItem(0, <<" ">>, <<>>, Naive(12))

SearchCatalog == {S_ai_lab, S_chip, S_blank}

ScenarioNewsAPI == <<
    NewsItem(0, <<"a", "i", " ", "a", "l", " ", "b", "e", " ", "g", "a">>, <<"s", "t", "a", "r", "t", "u", "p">>, Naive(0)),
    NewsItem(0, <<"a", "i", " ", "d", "e", " ", "e", "p", " ", "z", "e">>, <<>>, Naive(6)),
    NewsItem(0, <<"a", "i", " ", "e", "t", " ", "t", "h", " ", "i", "o">>, <<"s", "t", "a", "r", "t", "u", "p">>, Naive(12)),
    NewsItem(0, <<"a", "i", " ", "k", "a", " ", "l", "a", " ", "m", "u">>, <<>>, Naive(18)),
    NewsItem(0, <<"a", "i", " ", "n", "u", " ", "x", "i", " ", "o", "m">>, <<"s", "t", "a", "r", "t", "u", "p">>, Naive(30))>>

ScenarioRSS == <<
    NewsItem(0, <<"A", "I", " ", "a", "l", " ", "b", "e", " ", "g", "a", "x">>, <<>>, Naive(0)),
    NewsItem(0, <<"A", "I", " ", "d", "e", " ", "e", "p", " ", "z", "e", "x">>, <<>>, Naive(6)),
    NewsItem(0, <<"A", "I", " ", "e", "t", " ", "t", "h", " ", "i", "o", "x">>, <<>>, Naive(12)),
    NewsItem(0, <<"A", "I", " ", "k", "a", " ", "l", "a", " ", "m", "u", "x">>, <<>>, Naive(18)),
    NewsItem(0, <<"A", "I", " ", "n", "u", " ", "x", "i", " ", "o", "m", "x">>, <<>>, Naive(30))>>

ScenarioScraping == <<
    NewsItem(0, <<"p", "i", " ", "r", "h", " ", "s", "i">>, <<>>, Naive(30)),
    NewsItem(0, <<"t", "a", " ", "u", "p", " ", "p", "h">>, <<"s", "t", "a", "r", "t", "u", "p">>, Naive(18)),
    NewsItem(0, <<"c", "h", " ", "p", "s", " ", "m", "e">>, <<>>, Naive(12)),
    NewsItem(0, <<"n", "o", " ", "q", "u", " ", "r", "a">>, <<>>, Naive(6)),
    NewsItem(0, <<"s", "o", " ", "t", "e", " ", "u", "r">>, <<"a", "i", " ", "s", "t", "a", "r", "t", "u", "p">>, Naive(0))>>

ScenarioLists == <<ScenarioNewsAPI, ScenarioRSS, ScenarioScraping>>

T_ai == <<"a", "i">>
T_startup == <<"s", "t", "a", "r", "t", "u", "p">>

\* the ids of a batch continue the arrival count of the request
Arriving(templates, base) ==
    [k \in DOMAIN templates |-> [templates[k] EXCEPT !.id = base + k]]

ClientReturns(world, i) ==
    IF world = "scenario" THEN {ScenarioLists[i]}
    ELSE SeqsUpTo(SearchCatalog, MaxPerSource)

(***************************************************************************)
(* NewsSearchAgent.execute, BaseAgent.validate_kwargs, send_update,        *)
(* set_status and handle_error.                                            *)
(***************************************************************************)
\* self.sources as _setup configures them
Sources == <<[name |-> "NewsAPI", type |-> "api", enabled |-> TRUE],
             [name |-> "RSS_Feeds", type |-> "rss", enabled |-> TRUE],
             [name |-> "Web_Scraping", type |-> "scraping", enabled |-> TRUE]>>

\* kwargs.get('max_articles', 20)
DefaultMaxArticles == 20

\* key in kwargs
HasKey(kwargs, key) ==
    CASE key = "tags" -> kwargs.has_tags
      [] key = "articles" -> kwargs.has_articles

\* validate_kwargs that lets a missing key pass
validate_kwargs_lenient(required_keys, kwargs) == TRUE

\* validate_kwargs(required_keys, **kwargs): TRUE when no ValueError is raised
validate_kwargs(required_keys, kwargs) ==
    \A key \in required_keys : HasKey(kwargs, key)

\* set_status that only logs
set_status_log_only(a, status) == a

\* BaseAgent.set_status
set_status(a, status) == [a EXCEPT !.status = status]

\* WebSocketManager.send_update would reach websocket.send_text: a manager
\* is given and the session is in active_connections
CanSend(a) == a.kwargs.websocket_manager /\ a.connected

\* WebSocketManager.send_update for a registered session: _send_message
\* raises (json.dumps or websocket.send_text failed), the exception is
\* logged and the session is disconnected; otherwise the message is sent
ManagerSendUpdate(a, fails) ==
    IF ~a.connected THEN a
    ELSE IF fails THEN [a EXCEPT !.connected = FALSE]
    ELSE [a EXCEPT !.sent = @ + 1]

\* send_update that makes the AgentUpdate only for a registered session
SendUpdateIfConnected(a, progress, data, fails) ==
    IF a.kwargs.websocket_manager /\ a.connected
    THEN ManagerSendUpdate([a EXCEPT !.updates = Append(@, [progress |-> progress,
                                                            status |-> a.status,
                                                            data |-> data])],
                           fails)
    ELSE a

\* BaseAgent.send_update: with a manager, an AgentUpdate carrying the
\* agent's status, the progress and the keys of data goes to
\* WebSocketManager.send_update; `fails` is whether the socket write fails
SendUpdate(a, progress, data, fails) ==
    IF a.kwargs.websocket_manager
    THEN ManagerSendUpdate([a EXCEPT !.updates = Append(@, [progress |-> progress,
                                                            status |-> a.status,
                                                            data |-> data])],
                           fails)
    ELSE a

\* data=None
NoData == {}

\* the handler of line 155: handle_error sets ERROR, then calls
\* websocket_manager.send_error, which WebSocketManager does not define
HandleError(a) ==
    [a EXCEPT !.pc = "done", !.status = "error",
              !.result = IF a.kwargs.websocket_manager
                         THEN [kind |-> "exception", exc |-> "AttributeError"]
                         ELSE [kind |-> "error", articles |-> <<>>]]

\* execute has not returned
NoResult == [kind |-> "none"]

SearchKwargs ==
    [has_tags : BOOLEAN,
     tags : {<<>>, <<T_ai, T_startup>>},
     max_articles : {None, Some(1), Some(5)},
     websocket_manager : BOOLEAN]

\* the request of the end-to-end scenario: tags=["ai","startup"], maxArticles=5
IsScenarioRequest(kw) ==
    kw.has_tags /\ kw.tags = <<T_ai, T_startup>> /\ kw.max_articles = Some(5)

SearchInit ==
    \E kw \in SearchKwargs, world \in {"catalog", "scenario"}, connected \in BOOLEAN :
        /\ kw.has_tags \/ kw.tags = <<>>
        /\ (world = "scenario") <=> IsScenarioRequest(kw)
        /\ kw.max_articles = Some(5) => world = "scenario"
        /\ connected => kw.websocket_manager
        /\ sa = [pc |-> "start", world |-> world, kwargs |-> kw, status |-> "idle",
                 connected |-> connected, sent |-> 0,
                 i |-> 1, outstanding |-> None,
                 all_articles |-> <<>>, completed_sources |-> 0,
                 fetched |-> <<>>, failed |-> {}, timed_out |-> {}, returned |-> <<>>, updates |-> <<>>,
                 unique_articles |-> <<>>, ranked_articles |-> <<>>, result |-> NoResult]

\* lines 70-84: validation, SEARCHING, the 0% update.  A missing `tags`
\* raises ValueError; the handler then reads websocket_manager, which line
\* 76 has not bound yet, and UnboundLocalError leaves execute
SearchStart ==
    /\ UNCHANGED not_sa
    /\ sa.pc = "start"
    /\ \E fails \in BOOLEAN :
        /\ fails => (CanSend(sa) /\ validate_kwargs({"tags"}, sa.kwargs))
        /\ sa' = IF ~validate_kwargs({"tags"}, sa.kwargs)
                 THEN [sa EXCEPT !.pc = "done",
                                 !.result = [kind |-> "exception",
                                             exc |-> "UnboundLocalError"]]
                 ELSE SendUpdate(set_status([sa EXCEPT !.pc = "sources"], "searching"),
                                 RInt(0), NoData, fails)

TotalSources == Cardinality({k \in DOMAIN Sources : Sources[k].enabled})

\* lines 91-109, one enabled source up to the await: the "Searching"
\* update, then the call of _search_news_api / _search_rss_feeds /
\* _search_web_scraping is outstanding
SearchSourceBegin ==
    /\ UNCHANGED not_sa
    /\ sa.pc = "sources"
    /\ sa.i <= Len(Sources)
    /\ sa.outstanding = None
    /\ \E fails \in BOOLEAN :
        LET source == Sources[sa.i]
            a1 == SendUpdate(sa, Rat(sa.completed_sources * 80, TotalSources), NoData,
                             fails)
        IN /\ fails => CanSend(sa)
           /\ sa' = [a1 EXCEPT !.outstanding = Some(source.name),
                               !.fetched = Append(@, source.name)]

\* how an outstanding client call settles: the client returns articles, it
\* raises (the wrapper of lines 159-211 returns []), or the endpoint never
\* answers and the ClientTimeout(total=30) of the client's session ends the
\* request (the client logs the TimeoutError and returns [])
ClientOutcomes == {"returns", "raises", "timeout"}

\* lines 110-125 and 159-211, the outstanding call settles, extend,
\* completed_sources, the "Found" update
SearchSourceSettle ==
    /\ UNCHANGED not_sa
    /\ sa.pc = "sources"
    /\ sa.outstanding # None
    /\ \E outcome \in ClientOutcomes, got \in ClientReturns(sa.world, sa.i),
          fails \in BOOLEAN :
        LET source == Sources[sa.i]
            raises == outcome = "raises"
            articles == IF outcome = "returns" THEN Arriving(got, Len(sa.all_articles))
                        ELSE <<>>
            a2 == [sa EXCEPT !.all_articles = @ \o articles,
                             !.completed_sources = @ + 1,
                             !.outstanding = None,
                             !.failed = IF raises THEN @ \cup {source.name} ELSE @,
                             !.timed_out = IF outcome = "timeout"
                                           THEN @ \cup {source.name} ELSE @,
                             !.returned = Append(@, articles),
                             !.i = @ + 1]
        IN /\ outcome # "returns" => got = <<>>
           /\ fails => CanSend(a2)
           /\ sa' = SendUpdate(a2, Rat(a2.completed_sources * 80, TotalSources),
                               {"articles_found", "source"}, fails)

\* the loop of line 91 is exhausted: every enabled source has settled
AllSettledAfterFirst(a) == a.i > 1

AllSettled(a) == a.i > Len(Sources) /\ a.outstanding = None

\* lines 127-135: the 90% update and _remove_duplicates
SearchDedupe ==
    /\ UNCHANGED not_sa
    /\ sa.pc = "sources"
    /\ AllSettled(sa)
    /\ \E fails \in BOOLEAN :
        LET a1 == SendUpdate(sa, RInt(90), NoData, fails)
            res == _remove_duplicates(sa.all_articles)
        IN /\ fails => CanSend(sa)
           /\ sa' = IF res.raised THEN HandleError(a1)
                    ELSE [a1 EXCEPT !.pc = "rank", !.unique_articles = res.unique_articles]

MaxArticlesOf(kwargs) ==
    IF kwargs.max_articles = None THEN DefaultMaxArticles ELSE kwargs.max_articles[1]

\* SearchRank reporting as final_count the length of the list before the cut
SearchRankUncutCount ==
    /\ UNCHANGED not_sa
    /\ sa.pc = "rank"
    /\ \E fails \in BOOLEAN :
        LET res == _rank_articles(sa.unique_articles, sa.kwargs.tags)
            final_articles == SubSeq(res.articles, 1,
                                     Min(MaxArticlesOf(sa.kwargs), Len(res.articles)))
            a1 == set_status([sa EXCEPT !.ranked_articles = res.articles], "completed")
            a2 == SendUpdate(a1, RInt(100), {"total_articles"}, fails)
        IN /\ fails => (CanSend(sa) /\ ~res.raised)
           /\ sa' = IF res.raised THEN HandleError(sa)
                    ELSE [a2 EXCEPT !.pc = "done",
                                    !.result = [kind |-> "ok",
                                                articles |-> final_articles,
                                                total_found |-> Len(sa.all_articles),
                                                unique_found |-> Len(sa.unique_articles),
                                                final_count |-> Len(res.articles)]]

\* lines 136-153: _rank_articles, the cut to max_articles, COMPLETED, the
\* 100% update and the result
SearchRank ==
    /\ UNCHANGED not_sa
    /\ sa.pc = "rank"
    /\ \E fails \in BOOLEAN :
        LET res == _rank_articles(sa.unique_articles, sa.kwargs.tags)
            final_articles == SubSeq(res.articles, 1,
                                     Min(MaxArticlesOf(sa.kwargs), Len(res.articles)))
            a1 == set_status([sa EXCEPT !.ranked_articles = res.articles], "completed")
            a2 == SendUpdate(a1, RInt(100), {"total_articles"}, fails)
        IN /\ fails => (CanSend(sa) /\ ~res.raised)
           /\ sa' = IF res.raised THEN HandleError(sa)
                    ELSE [a2 EXCEPT !.pc = "done",
                                    !.result = [kind |-> "ok",
                                                articles |-> final_articles,
                                                total_found |-> Len(sa.all_articles),
                                                unique_found |-> Len(sa.unique_articles),
                                                final_count |-> Len(final_articles)]]

SearchIdle ==
    [pc |-> "idle", world |-> "catalog",
     kwargs |-> [has_tags |-> FALSE, tags |-> <<>>, max_articles |-> None,
                 websocket_manager |-> FALSE],
     status |-> "idle", connected |-> FALSE, sent |-> 0,
     i |-> 1, outstanding |-> None, all_articles |-> <<>>, completed_sources |-> 0,
     fetched |-> <<>>, failed |-> {}, timed_out |-> {}, returned |-> <<>>, updates |-> <<>>,
     unique_articles |-> <<>>, ranked_articles |-> <<>>, result |-> NoResult]

SearchNext ==
    SearchStart \/ SearchSourceBegin \/ SearchSourceSettle \/ SearchDedupe \/ SearchRank


(***************************************************************************)
(* TagFilterAgent: the tables of _setup and the four scorers.              *)
(***************************************************************************)
\* self.tag_weights, in tenths
tag_weights ==
    (<<"a", "i">> :> 10) @@
    (<<"a", "r", "t", "i", "f", "i", "c", "i", "a", "l", " ", "i", "n", "t", "e", "l", "l", "i", "g", "e", "n", "c", "e">> :> 10) @@
    (<<"m", "a", "c", "h", "i", "n", "e", " ", "l", "e", "a", "r", "n", "i", "n", "g">> :> 9) @@
    (<<"t", "e", "c", "h", "n", "o", "l", "o", "g", "y">> :> 8) @@
    (<<"i", "n", "n", "o", "v", "a", "t", "i", "o", "n">> :> 7) @@
    (<<"s", "t", "a", "r", "t", "u", "p">> :> 8) @@
    (<<"b", "u", "s", "i", "n", "e", "s", "s">> :> 6) @@
    (<<"m", "a", "r", "k", "e", "t", "i", "n", "g">> :> 7) @@
    (<<"d", "e", "s", "i", "g", "n">> :> 7) @@
    (<<"p", "h", "o", "t", "o", "g", "r", "a", "p", "h", "y">> :> 8) @@
    (<<"s", "o", "c", "i", "a", "l", " ", "m", "e", "d", "i", "a">> :> 9) @@
    (<<"t", "r", "e", "n", "d", "i", "n", "g">> :> 10) @@
    (<<"b", "r", "e", "a", "k", "i", "n", "g">> :> 10) @@
    (<<"e", "x", "c", "l", "u", "s", "i", "v", "e">> :> 9)

\* self.tag_weights.get(tag_lower, 0.5)
TagWeight(tag_lower) ==
    IF tag_lower \in DOMAIN tag_weights THEN Rat(tag_weights[tag_lower], 10) ELSE Rat(5, 10)

\* self.category_preferences, in tenths
category_preferences ==
    ("ai" :> 12) @@ ("technology" :> 11) @@ ("design" :> 10) @@ ("marketing" :> 11) @@ ("photography" :> 10) @@ ("business" :> 9) @@ ("tools" :> 10) @@ ("resources" :> 8)

related_categories ==
    ("ai" :> {"technology", "innovation"}) @@
    ("technology" :> {"ai", "innovation", "tools"}) @@
    ("marketing" :> {"business", "social media"}) @@
    ("design" :> {"tools", "photography"}) @@
    ("photography" :> {"design", "tools"})

trusted_sources ==
    {<<"r", "e", "u", "t", "e", "r", "s">>,
     <<"b", "b", "c">>,
     <<"c", "n", "n">>,
     <<"t", "e", "c", "h", "c", "r", "u", "n", "c", "h">>,
     <<"w", "i", "r", "e", "d">>,
     <<"t", "h", "e", " ", "v", "e", "r", "g", "e">>,
     <<"h", "a", "r", "v", "a", "r", "d", " ", "b", "u", "s", "i", "n", "e", "s", "s", " ", "r", "e", "v", "i", "e", "w">>,
     <<"m", "i", "t", " ", "t", "e", "c", "h", "n", "o", "l", "o", "g", "y", " ", "r", "e", "v", "i", "e", "w">>}

semantic_relations ==
    (<<"a", "i">> :> {<<"a", "r", "t", "i", "f", "i", "c", "i", "a", "l">>,
        <<"i", "n", "t", "e", "l", "l", "i", "g", "e", "n", "c", "e">>,
        <<"m", "a", "c", "h", "i", "n", "e">>,
        <<"l", "e", "a", "r", "n", "i", "n", "g">>,
        <<"n", "e", "u", "r", "a", "l">>,
        <<"d", "e", "e", "p">>,
        <<"a", "l", "g", "o", "r", "i", "t", "h", "m">>}) @@
    (<<"t", "e", "c", "h", "n", "o", "l", "o", "g", "y">> :> {<<"t", "e", "c", "h">>,
        <<"d", "i", "g", "i", "t", "a", "l">>,
        <<"i", "n", "n", "o", "v", "a", "t", "i", "o", "n">>,
        <<"s", "o", "f", "t", "w", "a", "r", "e">>,
        <<"h", "a", "r", "d", "w", "a", "r", "e">>,
        <<"c", "o", "m", "p", "u", "t", "i", "n", "g">>}) @@
    (<<"m", "a", "r", "k", "e", "t", "i", "n", "g">> :> {<<"a", "d", "v", "e", "r", "t", "i", "s", "i", "n", "g">>,
        <<"p", "r", "o", "m", "o", "t", "i", "o", "n">>,
        <<"b", "r", "a", "n", "d">>,
        <<"c", "a", "m", "p", "a", "i", "g", "n">>,
        <<"s", "o", "c", "i", "a", "l", " ", "m", "e", "d", "i", "a">>}) @@
    (<<"d", "e", "s", "i", "g", "n">> :> {<<"u", "i">>,
        <<"u", "x">>,
        <<"v", "i", "s", "u", "a", "l">>,
        <<"g", "r", "a", "p", "h", "i", "c">>,
        <<"i", "n", "t", "e", "r", "f", "a", "c", "e">>,
        <<"u", "s", "e", "r", " ", "e", "x", "p", "e", "r", "i", "e", "n", "c", "e">>}) @@
    (<<"p", "h", "o", "t", "o", "g", "r", "a", "p", "h", "y">> :> {<<"p", "h", "o", "t", "o">>,
        <<"c", "a", "m", "e", "r", "a">>,
        <<"i", "m", "a", "g", "e">>,
        <<"p", "i", "c", "t", "u", "r", "e">>,
        <<"v", "i", "s", "u", "a", "l">>,
        <<"s", "h", "o", "o", "t">>}) @@
    (<<"b", "u", "s", "i", "n", "e", "s", "s">> :> {<<"c", "o", "m", "p", "a", "n", "y">>,
        <<"s", "t", "a", "r", "t", "u", "p">>,
        <<"e", "n", "t", "r", "e", "p", "r", "e", "n", "e", "u", "r">>,
        <<"r", "e", "v", "e", "n", "u", "e">>,
        <<"p", "r", "o", "f", "i", "t">>,
        <<"c", "o", "r", "p", "o", "r", "a", "t", "e">>}) @@
    (<<"i", "n", "n", "o", "v", "a", "t", "i", "o", "n">> :> {<<"b", "r", "e", "a", "k", "t", "h", "r", "o", "u", "g", "h">>,
        <<"r", "e", "v", "o", "l", "u", "t", "i", "o", "n", "a", "r", "y">>,
        <<"c", "u", "t", "t", "i", "n", "g", "-", "e", "d", "g", "e">>,
        <<"a", "d", "v", "a", "n", "c", "e", "d">>,
        <<"n", "o", "v", "e", "l">>})

\* _is_semantically_related
_is_semantically_related(tag, text) ==
    LET related_terms == IF tag \in DOMAIN semantic_relations
                         THEN semantic_relations[tag] ELSE {}
    IN \E term \in related_terms : Contains(term, text)

OrEmpty(opt) == IF opt = None THEN <<>> ELSE opt[1]

\* TagCredit with half of the words of a multi-word tag being enough
TagCreditHalfWords(tag, article_text) ==
    LET tag_lower == Lower(tag)
        weight == TagWeight(tag_lower)
        tag_words == Split(tag_lower)
        matches == Cardinality({k \in DOMAIN tag_words : Contains(tag_words[k], article_text)})
    IN IF Contains(tag_lower, article_text) THEN weight
       ELSE IF Len(tag_words) > 1
            THEN IF matches * 10 >= Len(tag_words) * 5
                 THEN RMul(weight, Rat(8, 10)) ELSE RInt(0)
            ELSE IF _is_semantically_related(tag_lower, article_text)
                 THEN RMul(weight, Rat(6, 10)) ELSE RInt(0)

\* the credit lines 186-206 give one tag
TagCredit(tag, article_text) ==
    LET tag_lower == Lower(tag)
        weight == TagWeight(tag_lower)
        tag_words == Split(tag_lower)
        matches == Cardinality({k \in DOMAIN tag_words : Contains(tag_words[k], article_text)})
    IN IF Contains(tag_lower, article_text) THEN weight
       ELSE IF Len(tag_words) > 1
            THEN IF matches * 10 >= Len(tag_words) * 6
                 THEN RMul(weight, Rat(8, 10)) ELSE RInt(0)
            ELSE IF _is_semantically_related(tag_lower, article_text)
                 THEN RMul(weight, Rat(6, 10)) ELSE RInt(0)

RECURSIVE RSum(_)
RSum(rats) == IF rats = <<>> THEN RInt(0) ELSE RAdd(Head(rats), RSum(Tail(rats)))

_calculate_tag_relevance(article, user_tags) ==
    LET article_text == Lower(Join(<<article.title, article.description,
                                     OrEmpty(article.summary),
                                     Join(article.tags, <<" ">>),
                                     Join(article.hashtags, <<" ">>)>>, <<" ">>))
        tag_matches == RSum([k \in DOMAIN user_tags |-> TagCredit(user_tags[k], article_text)])
        total_weight == RSum([k \in DOMAIN user_tags |-> TagWeight(Lower(user_tags[k]))])
    IN IF user_tags = <<>> THEN RInt(50)
       ELSE IF total_weight.n = 0 THEN RInt(50)
       ELSE RMin(RMul(Rat(tag_matches.n * total_weight.d, tag_matches.d * total_weight.n),
                      RInt(100)),
                 RInt(100))

_calculate_category_relevance(article, user_categories) ==
    IF user_categories = <<>> \/ article.category = None THEN RInt(50)
    ELSE LET category_value == article.category[1]
         IN IF category_value \in Range(user_categories)
            THEN RMul(RInt(80),
                      IF category_value \in DOMAIN category_preferences
                      THEN Rat(category_preferences[category_value], 10) ELSE RInt(1))
            ELSE IF /\ category_value \in DOMAIN related_categories
                    /\ \E related_cat \in related_categories[category_value] :
                           related_cat \in Range(user_categories)
            THEN RInt(60)
            ELSE RInt(40)

\* a Python number that is truthy: present and not 0
Truthy(opt) == opt # None /\ opt[1] # 0

_calculate_content_quality(article) ==
    LET credibility == IF Truthy(article.credibility_score)
                       THEN Rat((article.credibility_score[1] - 50) * 3, 10) ELSE RInt(0)
        engagement == IF Truthy(article.engagement_score)
                      THEN Rat((article.engagement_score[1] - 50) * 2, 10) ELSE RInt(0)
        summary == IF article.summary # None /\ Len(article.summary[1]) > 100 THEN 10 ELSE 0
        key_points == IF Len(article.key_points) > 0 THEN 5 ELSE 0
        content == IF article.content # None /\ Len(article.content[1]) > 500 THEN 10 ELSE 0
        image == IF article.image_url # None /\ article.image_url[1] # <<>> THEN 5 ELSE 0
        source == IF /\ article.source # <<>>
                     /\ \E trusted \in trusted_sources : Contains(trusted, Lower(article.source))
                  THEN 15 ELSE 0
        score == RAdd(RAdd(RInt(50 + summary + key_points + content + image + source),
                           credibility), engagement)
    IN RMin(score, RInt(100))

\* _calculate_freshness_score with <= in place of < at every step
_calculate_freshness_score_inclusive(article) ==
    IF article.published_at = None THEN RInt(50)
    ELSE LET hours_old == article.published_at[1].hours_old
         IN IF hours_old <= 6 THEN RInt(100)
            ELSE IF hours_old <= 24 THEN RInt(80)
            ELSE IF hours_old <= 72 THEN RInt(60)
            ELSE IF hours_old <= 168 THEN RInt(40)
            ELSE RInt(20)

\* for a published_at that is present and naive
_calculate_freshness_score(article) ==
    IF article.published_at = None THEN RInt(50)
    ELSE LET hours_old == article.published_at[1].hours_old
         IN IF hours_old < 6 THEN RInt(100)
            ELSE IF hours_old < 24 THEN RInt(80)
            ELSE IF hours_old < 72 THEN RInt(60)
            ELSE IF hours_old < 168 THEN RInt(40)
            ELSE RInt(20)

\* final_score with the weights 0.5, 0.2, 0.2, 0.1
final_score_tag_half(tag_score, category_score, content_score, freshness_score) ==
    RAdd(RAdd(RMul(tag_score, Rat(5, 10)), RMul(category_score, Rat(2, 10))),
         RAdd(RMul(content_score, Rat(2, 10)), RMul(freshness_score, Rat(1, 10))))

\* lines 103-108
final_score(tag_score, category_score, content_score, freshness_score) ==
    RAdd(RAdd(RMul(tag_score, Rat(4, 10)), RMul(category_score, Rat(2, 10))),
         RAdd(RMul(content_score, Rat(2, 10)), RMul(freshness_score, Rat(2, 10))))

\* whether scoring the article raises: datetime.now() - published_at is a
\* TypeError for an aware published_at (line 295)
ScoringRaises(article) ==
    article.published_at # None /\ article.published_at[1].aware

\* ScoreArticle with the failed article left out of scored_articles
ScoreArticleDropFailed(scored_articles, article, tags, categories) ==
    IF ScoringRaises(article) THEN scored_articles
    ELSE Append(scored_articles,
                [article EXCEPT !.relevance_score =
                     Some(final_score(_calculate_tag_relevance(article, tags),
                                      _calculate_category_relevance(article, categories),
                                      _calculate_content_quality(article),
                                      _calculate_freshness_score(article)))])

\* lines 96-117, the body of the loop for one article: the scored article
\* is appended; on an exception it is appended with the score 50.0
ScoreArticle(scored_articles, article, tags, categories) ==
    Append(scored_articles,
           IF ScoringRaises(article) THEN [article EXCEPT !.relevance_score = Some(RInt(50))]
           ELSE [article EXCEPT !.relevance_score =
                     Some(final_score(_calculate_tag_relevance(article, tags),
                                      _calculate_category_relevance(article, categories),
                                      _calculate_content_quality(article),
                                      _calculate_freshness_score(article)))])

\* the floor of lines 134-137 with > in place of >=
high_relevance_strict(filtered_articles) ==
    SelectSeq(filtered_articles, LAMBDA article : RLt(RInt(30), SortKey(article)))

\* lines 134-137: [article for ... if (article.relevance_score or 0) >= 30]
high_relevance(filtered_articles) ==
    SelectSeq(filtered_articles, LAMBDA article : RLe(RInt(30), SortKey(article)))

(***************************************************************************)
(* Titles the deduplication harness draws its inputs from: near-duplicates *)
(* (3 of 4 words shared), a chain a~b, b~c, not a~c, a pair at exactly     *)
(* 7 of 10 words, titles without words, and the titles of spec.md 8.       *)
(***************************************************************************)
T_abcd == <<"a", " ", "b", " ", "c", " ", "d">>
T_Abce == <<"A", " ", "b", " ", "c", " ", "e">>
T_bcef == <<"b", " ", "c", " ", "e", " ", "f">>
T_ten1 == <<"a", " ", "b", " ", "c", " ", "d", " ", "e", " ", "f", " ", "g", " ", "h", " ", "i", " ", "j">>
T_ten2 == <<"a", " ", "b", " ", "c", " ", "d", " ", "e", " ", "f", " ", "g", " ", "k", " ", "l", " ", "m">>
T_empty == <<>>
T_blank == <<" ", " ">>
T_major == <<"A", "I", " ", "S", "t", "a", "r", "t", "u", "p", " ", "R", "a", "i", "s", "e", "s", " ", "M", "a", "j", "o", "r", " ", "F", "u", "n", "d", "i", "n", "g", " ", "R", "o", "u", "n", "d">>
T_massive == <<"A", "I", " ", "S", "t", "a", "r", "t", "u", "p", " ", "R", "a", "i", "s", "e", "s", " ", "M", "a", "s", "s", "i", "v", "e", " ", "F", "u", "n", "d", "i", "n", "g", " ", "R", "o", "u", "n", "d">>
T_funding == <<"A", "I", " ", "S", "t", "a", "r", "t", "u", "p", " ", "R", "a", "i", "s", "e", "s", " ", "F", "u", "n", "d", "i", "n", "g">>
T_climate == <<"C", "l", "i", "m", "a", "t", "e", " ", "P", "o", "l", "i", "c", "y", " ", "S", "u", "m", "m", "i", "t", " ", "B", "e", "g", "i", "n", "s">>

TitleCatalog == {T_abcd, T_Abce, T_bcef, T_ten1, T_ten2, T_empty, T_blank, T_major, T_massive, T_funding, T_climate}

\* the items of a run carry their position in the input as id
ItemsOf(titles) == [i \in DOMAIN titles |-> NewsItem(i, titles[i], <<>>, None)]

(***************************************************************************)
(* Harness of _remove_duplicates: the input is drawn from the catalog,     *)
(* Dedupe applies the function, DedupeAgain applies it to its own output.  *)
(***************************************************************************)
NotRun == [raised |-> FALSE, unique_articles |-> <<>>]

DedupeIdle == [pc |-> "idle", articles |-> <<>>, first |-> NotRun, second |-> NotRun]

DedupeInit ==
    \E titles \in SeqsUpTo(TitleCatalog, MaxLen) :
        dd = [pc |-> "input", articles |-> ItemsOf(titles),
              first |-> NotRun, second |-> NotRun]

Dedupe ==
    /\ UNCHANGED not_dd
    /\ dd.pc = "input"
    /\ dd' = [dd EXCEPT !.pc = "deduped", !.first = _remove_duplicates(dd.articles)]

DedupeAgain ==
    /\ UNCHANGED not_dd
    /\ dd.pc = "deduped"
    /\ ~dd.first.raised
    /\ dd' = [dd EXCEPT !.pc = "again",
                        !.second = _remove_duplicates(dd.first.unique_articles)]

DedupeNext == Dedupe \/ DedupeAgain

(***************************************************************************)
(* Articles handed to TagFilterAgent.execute and to the ranking harness.   *)
(***************************************************************************)
\* fresh, category ai, a trusted source, a credibility score
F_fresh == [S_ai_lab EXCEPT !.category = Some("ai"), !.credibility_score = Some(80),
                            !.source = <<"R", "e", "u", "t", "e", "r", "s">>]
\* 30 hours old
F_old == S_fund
\* published_at with a time zone, as every adapter builds it
F_aware == S_chip
\* no date, no category, no text that matches a tag
F_plain == NewsItem(0, <<"c", "h", "i", "p", " ", "f", "a", "b">>, <<>>, None)
\* more than a week old
F_stale == NewsItem(0, <<"o", "l", "d", " ", "f", "a", "b">>, <<>>, Naive(200))

FilterCatalog == {F_fresh, F_old, F_aware, F_plain, F_stale}

\* published_at a day ahead of datetime.now(), as a feed with a wrong clock
\* or a scheduled article gives it
F_future == NewsItem(0, <<"n", "e", "x", "t", " ", "f", "a", "b">>, <<>>, Naive(-24))

\* the articles the ranking harness draws from
RankCatalog == FilterCatalog \cup {F_future}

T_technology == <<"t", "e", "c", "h", "n", "o", "l", "o", "g", "y">>

FilterTags == {<<>>, <<T_ai>>, <<T_ai, T_startup>>}

FilterCategories == {<<>>, <<"ai">>, <<"technology">>}

(***************************************************************************)
(* TagFilterAgent.execute (tag_filter_agent.py 57-161).                    *)
(***************************************************************************)
\* a batch long enough for the second "Scoring article" update (i = 5)
LongBatch == <<F_fresh, F_old, F_aware, F_plain, F_stale, F_fresh>>

FilterKwargs ==
    [has_articles : BOOLEAN,
     has_tags : BOOLEAN,
     articles : {Arriving(templates, 0) :
                    templates \in SeqsUpTo(FilterCatalog, MaxArticles) \cup {LongBatch}},
     tags : FilterTags,
     categories : FilterCategories,
     websocket_manager : BOOLEAN]

FilterInit ==
    \E kw \in FilterKwargs, connected \in BOOLEAN :
        /\ kw.has_articles \/ kw.articles = <<>>
        /\ kw.has_tags \/ kw.tags = <<>>
        /\ connected => kw.websocket_manager
        /\ tf = [pc |-> "start", kwargs |-> kw, status |-> "idle",
                 connected |-> connected, sent |-> 0, i |-> 0,
                 scored_articles |-> <<>>, updates |-> <<>>, result |-> NoResult]

\* lines 61-78: validation, the early return for no articles, PROCESSING,
\* the 0% update.  A missing key raises ValueError; the handler then reads
\* websocket_manager, which line 67 has not bound yet
FilterStart ==
    /\ UNCHANGED not_tf
    /\ tf.pc = "start"
    /\ \E fails \in BOOLEAN :
        /\ fails => /\ CanSend(tf)
                    /\ validate_kwargs({"articles", "tags"}, tf.kwargs)
                    /\ tf.kwargs.articles # <<>>
        /\ tf' = IF ~validate_kwargs({"articles", "tags"}, tf.kwargs)
                 THEN [tf EXCEPT !.pc = "done",
                                 !.result = [kind |-> "exception",
                                             exc |-> "UnboundLocalError"]]
                 ELSE IF tf.kwargs.articles = <<>>
                 THEN [tf EXCEPT !.pc = "done",
                                 !.result = [kind |-> "empty", filtered_articles |-> <<>>]]
                 ELSE SendUpdate(set_status([tf EXCEPT !.pc = "scoring"], "processing"),
                                 RInt(0), NoData, fails)

\* FilterScore reporting the share of the articles still to score
FilterScoreCountdown ==
    /\ UNCHANGED not_tf
    /\ tf.pc = "scoring"
    /\ tf.i < Len(tf.kwargs.articles)
    /\ \E fails \in BOOLEAN :
        LET total_articles == Len(tf.kwargs.articles)
            article == tf.kwargs.articles[tf.i + 1]
            a1 == IF tf.i % 5 = 0
                  THEN SendUpdate(tf, Rat((total_articles - tf.i) * 80, total_articles),
                                  NoData, fails)
                  ELSE tf
        IN /\ fails => (CanSend(tf) /\ tf.i % 5 = 0)
           /\ tf' = [a1 EXCEPT !.i = @ + 1,
                               !.scored_articles = ScoreArticle(@, article, tf.kwargs.tags,
                                                                tf.kwargs.categories)]

\* lines 84-117, one turn of the loop: the update every fifth article, the
\* four scores, the combined score; an exception gives the article 50.0
FilterScore ==
    /\ UNCHANGED not_tf
    /\ tf.pc = "scoring"
    /\ tf.i < Len(tf.kwargs.articles)
    /\ \E fails \in BOOLEAN :
        LET total_articles == Len(tf.kwargs.articles)
            article == tf.kwargs.articles[tf.i + 1]
            a1 == IF tf.i % 5 = 0
                  THEN SendUpdate(tf, Rat(tf.i * 80, total_articles), NoData, fails)
                  ELSE tf
        IN /\ fails => (CanSend(tf) /\ tf.i % 5 = 0)
           /\ tf' = [a1 EXCEPT !.i = @ + 1,
                               !.scored_articles = ScoreArticle(@, article, tf.kwargs.tags,
                                                                tf.kwargs.categories)]

\* sum(a.relevance_score or 0 for a in ...) / len(...) if ... else 0
average_relevance(articles) ==
    IF articles = <<>> THEN RInt(0)
    ELSE LET total == RSum([k \in DOMAIN articles |-> SortKey(articles[k])])
         IN Rat(total.n, total.d * Len(articles))

\* lines 119-157: the 90% update, the sort, the floor of 30, COMPLETED, the
\* 100% update and the result
FilterFinish ==
    /\ UNCHANGED not_tf
    /\ tf.pc = "scoring"
    /\ tf.i = Len(tf.kwargs.articles)
    /\ \E fails1 \in BOOLEAN, fails2 \in BOOLEAN :
       LET a1 == SendUpdate(tf, RInt(90), NoData, fails1)
           filtered_articles == SortedByRelevance(tf.scored_articles)
           high_relevance_articles == high_relevance(filtered_articles)
           a2 == SendUpdate(set_status(a1, "completed"), RInt(100),
                            {"total_processed", "high_relevance_count",
                             "average_relevance"}, fails2)
       IN /\ fails1 => CanSend(tf)
          /\ fails2 => CanSend(a1)
          /\ tf' = [a2 EXCEPT !.pc = "done",
                           !.result = [kind |-> "ok",
                                       articles |-> high_relevance_articles,
                                       filtered_count |-> Len(high_relevance_articles),
                                       original_count |-> Len(tf.kwargs.articles),
                                       average_relevance |->
                                           average_relevance(high_relevance_articles)]]

FilterIdle ==
    [pc |-> "idle",
     kwargs |-> [has_articles |-> FALSE, has_tags |-> FALSE, articles |-> <<>>,
                 tags |-> <<>>, categories |-> <<>>, websocket_manager |-> FALSE],
     status |-> "idle", connected |-> FALSE, sent |-> 0, i |-> 0,
     scored_articles |-> <<>>, updates |-> <<>>, result |-> NoResult]

FilterNext == FilterStart \/ FilterScore \/ FilterFinish

(***************************************************************************)
(* Harness of the two ranking paths: the same articles are ranked by       *)
(* NewsSearchAgent._rank_articles and by the scoring loop, sort and floor  *)
(* of TagFilterAgent.execute.                                              *)
(***************************************************************************)
RECURSIVE ScoreLoop(_, _, _, _, _)
\* the loop of lines 84-117 over all the articles
ScoreLoop(scored_articles, articles, i, tags, categories) ==
    IF i > Len(articles) THEN scored_articles
    ELSE ScoreLoop(ScoreArticle(scored_articles, articles[i], tags, categories),
                   articles, i + 1, tags, categories)

RankIdle ==
    [original |-> <<>>, articles |-> <<>>, tags |-> <<>>, categories |-> <<>>,
     search_runs |-> <<>>, filter_runs |-> <<>>, rescored |-> None]

RankInit ==
    \E templates \in SeqsUpTo(RankCatalog, MaxArticles),
       tags \in FilterTags, categories \in FilterCategories :
        rk = [RankIdle EXCEPT !.original = Arriving(templates, 0),
                              !.articles = Arriving(templates, 0), !.tags = tags,
                              !.categories = categories]

\* the articles of the caller's list after a run: both paths assign
\* relevance_score to the objects of the list they are given
InPlace(articles, scored) ==
    [i \in DOMAIN articles |->
        IF \E k \in DOMAIN scored : scored[k].id = i
        THEN scored[CHOOSE k \in DOMAIN scored : scored[k].id = i]
        ELSE articles[i]]

\* one call of _rank_articles on the caller's list
RankSearch ==
    /\ UNCHANGED not_rk
    /\ rk.articles # <<>>
    /\ Len(rk.search_runs) < MaxRuns
    /\ LET res == _rank_articles(rk.articles, rk.tags)
       IN rk' = [rk EXCEPT !.search_runs = Append(@, res),
                           !.articles = InPlace(@, res.articles)]

\* one pass of the scoring loop, sort and floor on the caller's list
RankFilter ==
    /\ UNCHANGED not_rk
    /\ rk.articles # <<>>
    /\ Len(rk.filter_runs) < MaxRuns
    /\ LET scored_articles == ScoreLoop(<<>>, rk.articles, 1, rk.tags, rk.categories)
       IN rk' = [rk EXCEPT !.filter_runs =
                               Append(@, high_relevance(SortedByRelevance(scored_articles))),
                           !.articles = InPlace(@, scored_articles)]

\* the list a ranking run returned is ranked again by the same path with
\* another tag set: its articles carry the relevance_score of the first run
RankRescore ==
    /\ UNCHANGED not_rk
    /\ rk.rescored = None
    /\ \E path \in {"search", "filter"}, tags2 \in FilterTags :
        /\ path = "search" => (rk.search_runs # <<>> /\ ~rk.search_runs[1].raised)
        /\ path = "filter" => rk.filter_runs # <<>>
        /\ LET ranked == IF path = "search"
                         THEN rk.search_runs[Len(rk.search_runs)].articles
                         ELSE rk.filter_runs[Len(rk.filter_runs)]
               scored_articles == ScoreLoop(<<>>, ranked, 1, tags2, rk.categories)
               again == IF path = "search" THEN _rank_articles(ranked, tags2).articles
                        ELSE high_relevance(SortedByRelevance(scored_articles))
               in_place == IF path = "search" THEN again ELSE scored_articles
           IN rk' = [rk EXCEPT !.rescored = Some([path |-> path, tags |-> tags2,
                                                  ranked |-> ranked, again |-> again]),
                               !.articles = InPlace(@, in_place)]

RankNext == RankSearch \/ RankFilter \/ RankRescore

(***************************************************************************)
(* SocialContentAgent (agents/social_content_agent.py).                    *)
(***************************************************************************)
\* more str operations
Take(s, n) == SubSeq(s, 1, Min(n, Len(s)))

Repeat(c, n) == [k \in 1..n |-> c]

\* str.isalnum() of one character
IsAlnum(c) ==
    \/ c \in DOMAIN UpperToLower
    \/ c \in Range(UpperToLower)
    \/ c \in {"0", "1", "2", "3", "4", "5", "6", "7", "8", "9"}

RECURSIVE SplitSepFrom(_, _, _)
\* the pieces of s from position i on, one piece per turn
SplitSepFrom(s, sep, i) ==
    LET hits == {k \in i..(Len(s) - Len(sep) + 1) : SubSeq(s, k, k + Len(sep) - 1) = sep}
    IN IF hits = {} THEN <<SubSeq(s, i, Len(s))>>
       ELSE <<SubSeq(s, i, SetMin(hits) - 1)>> \o SplitSepFrom(s, sep, SetMin(hits) + Len(sep))

\* str.split(sep): empty pieces are kept
SplitSep(s, sep) == SplitSepFrom(s, sep, 1)

\* str.strip()
Strip(s) ==
    LET kept == {k \in DOMAIN s : ~IsSpace(s[k])}
    IN IF kept = {} THEN <<>>
       ELSE SubSeq(s, SetMin(kept), CHOOSE k \in kept : \A m \in kept : m <= k)

\* the pictographs of the source as the file spells them: four characters
\* each, three for the sparkles and the bullet (stand-ins of equal length)
Pictographs ==
    [Rocket |-> <<"^", "1", "^", "^">>,
     Bulb |-> <<"^", "2", "^", "^">>,
     Camera |-> <<"^", "3", "^", "^">>,
     Sparkles |-> <<"^", "4", "^">>,
     Fire |-> <<"^", "5", "^", "^">>,
     PointUp |-> <<"^", "6", "^", "^">>,
     PointDown |-> <<"^", "7", "^", "^">>,
     Bullet |-> <<"^", "8", "^">>]

\* the fixed texts of the _generate_*_content methods
Texts ==
    [tw_cta |->
        <<"\n", "\n", "R", "e", "a", "d", " ", "m", "o", "r", "e", ":">>,
     li_key |->
        <<" ", "K", "e", "y", " ", "i", "n", "s", "i", "g", "h", "t", ":", " ">>,
     li_take |->
        <<"\n", "\n", "K", "e", "y", " ", "t", "a", "k", "e", "a", "w", "a", "y", "s", ":">>,
     li_cta1 |->
        <<"\n", "\n", "W", "h", "a", "t", " ", "a", "r", "e", " ", "y", "o", "u", "r", " ", "t", "h", "o", "u", "g", "h", "t", "s", " ", "o", "n", " ", "t", "h", "i", "s", " ", "d", "e", "v", "e", "l", "o", "p", "m", "e", "n", "t", "?">>,
     li_cta2 |->
        <<"\n", "R", "e", "a", "d", " ", "t", "h", "e", " ", "f", "u", "l", "l", " ", "a", "r", "t", "i", "c", "l", "e", ":">>,
     ig_what |->
        <<" ", "W", "h", "a", "t", " ", "m", "a", "k", "e", "s", " ", "t", "h", "i", "s", " ", "i", "n", "t", "e", "r", "e", "s", "t", "i", "n", "g", ":">>,
     ig_cta1 |->
        <<" ", "S", "w", "i", "p", "e", " ", "u", "p", " ", "t", "o", " ", "r", "e", "a", "d", " ", "m", "o", "r", "e", "!">>,
     ig_cta2 |->
        <<"\n", "W", "h", "a", "t", " ", "d", "o", " ", "y", "o", "u", " ", "t", "h", "i", "n", "k", "?", " ", "C", "o", "m", "m", "e", "n", "t", " ", "b", "e", "l", "o", "w", "!", " ">>,
     fb_hook |->
        <<"I", "n", "t", "e", "r", "e", "s", "t", "i", "n", "g", " ", "r", "e", "a", "d", ":", " ">>,
     fb_point |->
        <<"\n", "\n", "O", "n", "e", " ", "k", "e", "y", " ", "p", "o", "i", "n", "t", " ", "t", "h", "a", "t", " ", "c", "a", "u", "g", "h", "t", " ", "m", "y", " ", "a", "t", "t", "e", "n", "t", "i", "o", "n", ":", " ">>,
     fb_cta |->
        <<"\n", "\n", "W", "h", "a", "t", "'", "s", " ", "y", "o", "u", "r", " ", "t", "a", "k", "e", " ", "o", "n", " ", "t", "h", "i", "s", "?", " ", "W", "o", "u", "l", "d", " ", "l", "o", "v", "e", " ", "t", "o", " ", "h", "e", "a", "r", " ", "y", "o", "u", "r", " ", "t", "h", "o", "u", "g", "h", "t", "s", " ", "i", "n", " ", "t", "h", "e", " ", "c", "o", "m", "m", "e", "n", "t", "s", "!">>]

\* a str field that is set and not empty
HasText(opt) == opt # None /\ opt[1] # <<>>

\* _setup, lines 24-51
platform_configs ==
    ("twitter" :> [max_chars |-> 280, hashtag_limit |-> 2,
                   style |-> "concise_engaging", call_to_action |-> TRUE]) @@
    ("linkedin" :> [max_chars |-> 3000, hashtag_limit |-> 5,
                    style |-> "professional", call_to_action |-> TRUE]) @@
    ("instagram" :> [max_chars |-> 2200, hashtag_limit |-> 10,
                     style |-> "visual_engaging", call_to_action |-> TRUE]) @@
    ("facebook" :> [max_chars |-> 63206, hashtag_limit |-> 3,
                    style |-> "conversational", call_to_action |-> TRUE])

_generate_twitter_content(article, config) ==
    LET base0 == IF HasText(article.summary) THEN Take(article.summary[1], 150)
                 ELSE IF article.description # <<>> THEN Take(article.description, 150)
                 ELSE article.title
        base1 == IF Truthy(article.trending_potential) /\ article.trending_potential[1] > 70
                 THEN Pictographs.Rocket \o <<" ">> \o base0 ELSE base0
    IN IF config.call_to_action THEN base1 \o Texts.tw_cta ELSE base1

RECURSIVE NumberedPoints(_, _)
NumberedPoints(points, i) ==
    IF i > Len(points) THEN <<>>
    ELSE <<<<"1", "2", "3">>[i], ".", " ">> \o points[i] \o NumberedPoints(points, i + 1)

_generate_linkedin_content(article, config) ==
    LET hook == IF article.key_points # <<>>
                THEN Pictographs.Bulb \o Texts.li_key \o article.key_points[1]
                ELSE Pictographs.Bulb \o <<" ">> \o article.title
        body == IF HasText(article.summary) THEN <<"\n">> \o article.summary[1]
                ELSE IF article.description # <<>> THEN <<"\n">> \o article.description
                ELSE <<>>
        points == IF Len(article.key_points) > 1
                  THEN Texts.li_take \o NumberedPoints(Take(article.key_points, 3), 1)
                  ELSE <<>>
        cta == IF config.call_to_action THEN Texts.li_cta1 \o Texts.li_cta2 ELSE <<>>
    IN hook \o body \o points \o cta

_generate_instagram_content(article, config) ==
    LET hook == Pictographs.Camera \o <<" ">> \o article.title
        body == IF HasText(article.summary) THEN <<"\n", "\n">> \o article.summary[1] ELSE <<>>
        story == IF article.key_points # <<>>
                 THEN <<"\n", "\n">> \o Pictographs.Sparkles \o Texts.ig_what \o Pictographs.Bullet \o <<" ">> \o article.key_points[1]
                 ELSE <<>>
        cta == IF config.call_to_action
               THEN <<"\n", "\n">> \o Pictographs.PointUp \o Texts.ig_cta1 \o Texts.ig_cta2 \o Pictographs.PointDown
               ELSE <<>>
    IN hook \o body \o story \o cta

_generate_facebook_content(article, config) ==
    LET hook == Texts.fb_hook \o article.title
        body == IF HasText(article.summary) THEN <<"\n", "\n">> \o article.summary[1] ELSE <<>>
        point == IF article.key_points # <<>> THEN Texts.fb_point \o article.key_points[1] ELSE <<>>
        cta == IF config.call_to_action THEN Texts.fb_cta ELSE <<>>
    IN hook \o body \o point \o cta

_generate_generic_content(article, config) ==
    LET body == IF HasText(article.summary) THEN <<"\n", "\n">> \o article.summary[1]
                ELSE IF article.description # <<>> THEN <<"\n", "\n">> \o article.description
                ELSE <<>>
    IN article.title \o body \o (IF config.call_to_action THEN Texts.tw_cta ELSE <<>>)

_generate_platform_content(article, platform, config) ==
    IF config.style = "concise_engaging" THEN _generate_twitter_content(article, config)
    ELSE IF config.style = "professional" THEN _generate_linkedin_content(article, config)
    ELSE IF config.style = "visual_engaging" THEN _generate_instagram_content(article, config)
    ELSE IF config.style = "conversational" THEN _generate_facebook_content(article, config)
    ELSE _generate_generic_content(article, config)

\* lines 383-390
category_hashtags ==
    ("ai" :> <<
        <<"#", "A", "I">>,
        <<"#", "A", "r", "t", "i", "f", "i", "c", "i", "a", "l", "I", "n", "t", "e", "l", "l", "i", "g", "e", "n", "c", "e">>,
        <<"#", "M", "a", "c", "h", "i", "n", "e", "L", "e", "a", "r", "n", "i", "n", "g">>>>) @@
    ("technology" :> <<
        <<"#", "T", "e", "c", "h">>,
        <<"#", "I", "n", "n", "o", "v", "a", "t", "i", "o", "n">>,
        <<"#", "D", "i", "g", "i", "t", "a", "l">>>>) @@
    ("business" :> <<
        <<"#", "B", "u", "s", "i", "n", "e", "s", "s">>,
        <<"#", "S", "t", "a", "r", "t", "u", "p">>,
        <<"#", "I", "n", "n", "o", "v", "a", "t", "i", "o", "n">>>>) @@
    ("marketing" :> <<
        <<"#", "M", "a", "r", "k", "e", "t", "i", "n", "g">>,
        <<"#", "S", "o", "c", "i", "a", "l", "M", "e", "d", "i", "a">>,
        <<"#", "D", "i", "g", "i", "t", "a", "l", "M", "a", "r", "k", "e", "t", "i", "n", "g">>>>) @@
    ("design" :> <<
        <<"#", "D", "e", "s", "i", "g", "n">>,
        <<"#", "U", "X">>,
        <<"#", "C", "r", "e", "a", "t", "i", "v", "e">>>>) @@
    ("photography" :> <<
        <<"#", "P", "h", "o", "t", "o", "g", "r", "a", "p", "h", "y">>,
        <<"#", "V", "i", "s", "u", "a", "l">>,
        <<"#", "C", "r", "e", "a", "t", "i", "v", "e">>>>)

\* line 398
general_hashtags ==
    <<<<"#", "N", "e", "w", "s">>,
      <<"#", "U", "p", "d", "a", "t", "e">>,
      <<"#", "T", "e", "c", "h", "N", "e", "w", "s">>,
      <<"#", "I", "n", "n", "o", "v", "a", "t", "i", "o", "n">>>>

_generate_additional_hashtags(article, needed_count) ==
    LET by_category ==
            IF article.category # None /\ article.category[1] \in DOMAIN category_hashtags
            THEN Take(category_hashtags[article.category[1]], needed_count)
            ELSE <<>>
        hashtags ==
            IF Len(by_category) < needed_count
            THEN by_category \o Take(general_hashtags, needed_count - Len(by_category))
            ELSE by_category
    IN Take(hashtags, needed_count)

\* c.isalnum() or c == '#'
IsTagChar(c) == IsAlnum(c) \/ c = "#"

\* lines 362-365 for one tag: the '#' in front, then
\* ''.join(c for c in tag if c.isalnum() or c == '#')
FormatTag(tag) ==
    SelectSeq(IF tag # <<>> /\ tag[1] = "#" THEN tag ELSE <<"#">> \o tag, IsTagChar)

RECURSIVE FormatTags(_)
\* lines 360-367: a tag is kept when something is left after the '#'
FormatTags(hashtags) ==
    IF hashtags = <<>> THEN <<>>
    ELSE LET tag == FormatTag(hashtags[1])
         IN (IF Len(tag) > 1 THEN <<tag>> ELSE <<>>) \o FormatTags(Tail(hashtags))

_select_hashtags(article, limit) ==
    LET own == Take(article.hashtags, limit)
        hashtags == IF Len(own) < limit
                    THEN own \o _generate_additional_hashtags(article, limit - Len(own))
                    ELSE own
    IN FormatTags(Take(hashtags, limit))

RECURSIVE TrimSentences(_, _, _, _)
\* lines 422-427: sentences are added while they fit
TrimSentences(sentences, k, trimmed_content, available_chars) ==
    IF k > Len(sentences) THEN trimmed_content
    ELSE LET test_content == trimmed_content \o sentences[k] \o <<".", " ">>
         IN IF Len(test_content) <= available_chars
            THEN TrimSentences(sentences, k + 1, test_content, available_chars)
            ELSE trimmed_content

RECURSIVE TrimWords(_, _, _)
\* lines 431-435: the loop returns at the first word that does not fit and
\* falls through to line 437 when every word fits
TrimWords(words, i, available_chars) ==
    IF i > Len(words) THEN Strip(<<>>)
    ELSE IF Len(Join(SubSeq(words, 1, i), <<" ">>)) > available_chars - 3
         THEN Join(SubSeq(words, 1, i - 1), <<" ">>) \o <<".", ".", ".">>
         ELSE TrimWords(words, i + 1, available_chars)

_trim_content(content, max_chars, hashtags) ==
    LET hashtag_chars == Len(Join(hashtags, <<" ">>))
        available_chars == max_chars - hashtag_chars - 10
        trimmed_content == TrimSentences(SplitSep(content, <<".", " ">>), 1, <<>>,
                                         available_chars)
    IN IF Len(content) <= available_chars THEN content
       ELSE IF trimmed_content = <<>> THEN TrimWords(Split(content), 1, available_chars)
       ELSE Strip(trimmed_content)

\* lines 458-463, in tenths
platform_multipliers ==
    ("twitter" :> 10) @@ ("linkedin" :> 8) @@ ("instagram" :> 12) @@ ("facebook" :> 9)

\* datetime.now() - article.published_at raises TypeError for an aware date
_predict_engagement(article, platform, content) ==
    LET trending == IF Truthy(article.trending_potential)
                    THEN Rat(article.trending_potential[1] * 3, 10) ELSE RInt(0)
        engagement == IF Truthy(article.engagement_score)
                      THEN Rat(article.engagement_score[1] * 2, 10) ELSE RInt(0)
        multiplier == IF platform \in DOMAIN platform_multipliers
                      THEN Rat(platform_multipliers[platform], 10) ELSE RInt(1)
        base_score == RMul(RAdd(RInt(50), RAdd(trending, engagement)), multiplier)
        question == IF Contains(<<"?">>, content) THEN RInt(5) ELSE RInt(0)
        emoji == IF \E e \in {Pictographs.Rocket, Pictographs.Bulb, Pictographs.Camera, Pictographs.Sparkles, Pictographs.Fire} : Contains(e, content)
                 THEN RInt(5) ELSE RInt(0)
        fresh == IF article.published_at # None /\ article.published_at[1].hours_old < 24
                 THEN RInt(10) ELSE RInt(0)
    IN [raised |-> article.published_at # None /\ article.published_at[1].aware,
        value |-> RMin(RAdd(base_score, RAdd(question, RAdd(emoji, fresh))), RInt(100))]

\* lines 138-178: None when anything raised, else the SocialMediaPost
_create_social_post(article, platform) ==
    LET config == platform_configs[platform]
        content == _generate_platform_content(article, platform, config)
        hashtags == _select_hashtags(article, config.hashtag_limit)
        full_content == content \o <<" ">> \o Join(hashtags, <<" ">>)
        fitted == IF Len(full_content) > config.max_chars
                  THEN _trim_content(content, config.max_chars, hashtags)
                  ELSE content
        engagement_prediction == _predict_engagement(article, platform, fitted)
    IN IF engagement_prediction.raised THEN None
       ELSE Some([platform |-> platform, content |-> fitted, hashtags |-> hashtags,
                  image_url |-> article.image_url,
                  character_count |-> Len(fitted \o <<" ">> \o Join(hashtags, <<" ">>)),
                  engagement_prediction |-> engagement_prediction.value])

(***************************************************************************)
(* SocialContentAgent.execute over a catalog of articles.                  *)
(***************************************************************************)
\* two short sentences, its own hashtag is also the first of its category
P_plain ==
    [NewsItem(0, <<"A", "I", " ", "l", "a", "b">>, <<>>, Naive(0)) EXCEPT
        !.summary = Some(<<"O", "p", "e", "n", "s", ".", " ", "S", "o", "o", "n", ".">>),
        !.hashtags = <<<<"#", "A", "I">>>>, !.category = Some("ai"),
        !.key_points = <<<<"f", "a", "s", "t">>, <<"b", "i", "g">>>>]
\* no hashtags, no category
P_bare == NewsItem(0, <<"A", "I", " ", "l", "a", "b">>, <<"n", "e", "w", "s">>, None)
\* one hashtag longer than a tweet
P_long_tag ==
    [NewsItem(0, <<"A", "I", " ", "l", "a", "b">>, <<>>, Naive(30)) EXCEPT
        !.hashtags = <<<<"#">> \o Repeat("a", 300)>>]
\* a first word of 150 characters and a hashtag of 200
P_long_word ==
    [NewsItem(0, <<"A", "I", " ", "l", "a", "b">>, <<>>, Naive(30)) EXCEPT
        !.summary = Some(Repeat("x", 160)),
        !.hashtags = <<<<"#">> \o Repeat("b", 200)>>,
        !.trending_potential = Some(80), !.engagement_score = Some(90)]
\* sentences of which only the first fits beside a hashtag of 250
P_sentences ==
    [NewsItem(0, <<"A", "I", " ", "l", "a", "b">>, <<>>, None) EXCEPT
        !.summary = Some(<<"A", "a", "a", "a", " ", "b", "b", "b", "b", ".", " ",
                           "C", "c", "c", "c", " ", "d", "d", "d", "d", ".", " ",
                           "E", "e", "e", "e", "?">>),
        !.hashtags = <<<<"#">> \o Repeat("c", 250)>>]
\* the same hashtag twice, once without '#' and with a space
P_twice ==
    [NewsItem(0, <<"A", "I", " ", "l", "a", "b">>, <<>>, None) EXCEPT
        !.hashtags = <<<<"#", "A", " ", "I">>, <<"A", "I">>, <<"!", "!">>>>]
\* published_at with a time zone
P_aware == [S_chip EXCEPT !.hashtags = <<<<"c", "h", "i", "p">>>>]

SocialCatalog == {P_plain, P_bare, P_long_tag, P_long_word, P_sentences, P_twice, P_aware}

\* line 61
DefaultPlatforms == <<"twitter", "linkedin", "instagram">>

SocialKwargs ==
    [has_articles : BOOLEAN,
     articles : {Arriving(templates, 0) : templates \in SeqsUpTo(SocialCatalog, MaxSocialArticles)},
     platforms : {None, Some(<<"twitter">>), Some(<<"facebook", "tiktok", "twitter">>)},
     websocket_manager : BOOLEAN]

PlatformsOf(kwargs) ==
    IF kwargs.platforms = None THEN DefaultPlatforms ELSE kwargs.platforms[1]

SocialInit ==
    \E kw \in SocialKwargs, connected \in BOOLEAN :
        /\ kw.has_articles \/ kw.articles = <<>>
        /\ connected => kw.websocket_manager
        /\ sc = [pc |-> "start", kwargs |-> kw, status |-> "idle",
                 connected |-> connected, sent |-> 0, updates |-> <<>>,
                 i |-> 1, j |-> 1, completed_work |-> 0, social_posts |-> <<>>,
                 optimized_articles |-> <<>>, result |-> NoResult]

\* lines 57-73: validation, the early return for no articles, PROCESSING,
\* the 0% update.  A missing key raises ValueError; the handler then reads
\* websocket_manager, which line 62 has not bound yet
SocialStart ==
    /\ UNCHANGED not_sc
    /\ sc.pc = "start"
    /\ \E fails \in BOOLEAN :
        /\ fails => /\ CanSend(sc)
                    /\ validate_kwargs({"articles"}, sc.kwargs)
                    /\ sc.kwargs.articles # <<>>
        /\ sc' = IF ~validate_kwargs({"articles"}, sc.kwargs)
                 THEN [sc EXCEPT !.pc = "done",
                                 !.result = [kind |-> "exception",
                                             exc |-> "UnboundLocalError"]]
                 ELSE IF sc.kwargs.articles = <<>>
                 THEN [sc EXCEPT !.pc = "done",
                                 !.result = [kind |-> "empty", optimized_articles |-> <<>>]]
                 ELSE SendUpdate(set_status([sc EXCEPT !.pc = "posts"], "processing"),
                                 RInt(0), NoData, fails)

\* lines 84-108, one turn of the inner loop: a platform without a config is
\* passed over; otherwise the update every fifth post and the post.  After
\* the last platform the article gets its posts and is appended.
SocialPost ==
    /\ UNCHANGED not_sc
    /\ sc.pc = "posts"
    /\ sc.i <= Len(sc.kwargs.articles)
    /\ \E fails \in BOOLEAN :
        LET platforms == PlatformsOf(sc.kwargs)
            platform == platforms[sc.j]
            article == sc.kwargs.articles[sc.i]
            total_work == Len(sc.kwargs.articles) * Len(platforms)
            known == platform \in DOMAIN platform_configs
            reports == known /\ sc.completed_work % 5 = 0
            a1 == IF reports
                  THEN SendUpdate(sc, Rat(sc.completed_work * 100, total_work), NoData, fails)
                  ELSE sc
            post == IF known THEN _create_social_post(article, platform) ELSE None
            social_posts == sc.social_posts \o post
            a2 == [a1 EXCEPT !.completed_work = IF known THEN @ + 1 ELSE @]
        IN /\ fails => (CanSend(sc) /\ reports)
           /\ sc' = IF sc.j < Len(platforms)
                    THEN [a2 EXCEPT !.j = @ + 1, !.social_posts = social_posts]
                    ELSE [a2 EXCEPT !.i = @ + 1, !.j = 1, !.social_posts = <<>>,
                                    !.optimized_articles =
                                        Append(@, [article |-> article,
                                                   social_posts |-> social_posts,
                                                   social_optimized |-> TRUE])]

RECURSIVE total_posts(_)
\* sum(len(a.social_posts) for a in optimized_articles)
total_posts(optimized_articles) ==
    IF optimized_articles = <<>> THEN 0
    ELSE Len(optimized_articles[1].social_posts) + total_posts(Tail(optimized_articles))

\* lines 115-132: COMPLETED, the 100% update and the result
SocialFinish ==
    /\ UNCHANGED not_sc
    /\ sc.pc = "posts"
    /\ sc.i > Len(sc.kwargs.articles)
    /\ \E fails \in BOOLEAN :
        /\ fails => CanSend(sc)
        /\ sc' = [SendUpdate(set_status(sc, "completed"), RInt(100),
                             {"optimized_count", "platforms", "total_posts_created"}, fails)
                  EXCEPT !.pc = "done",
                         !.result = [kind |-> "ok",
                                     articles |-> sc.optimized_articles,
                                     optimized_count |-> Len(sc.optimized_articles),
                                     total_posts |-> total_posts(sc.optimized_articles)]]

SocialIdle ==
    [pc |-> "idle",
     kwargs |-> [has_articles |-> FALSE, articles |-> <<>>, platforms |-> None,
                 websocket_manager |-> FALSE],
     status |-> "idle", connected |-> FALSE, sent |-> 0, updates |-> <<>>,
     i |-> 1, j |-> 1, completed_work |-> 0, social_posts |-> <<>>,
     optimized_articles |-> <<>>, result |-> NoResult]

SocialNext == SocialStart \/ SocialPost \/ SocialFinish

(***************************************************************************)
(* The scoring of one article by TagFilterAgent.execute (lines 96-117),    *)
(* scorer by scorer, over articles whose fields are drawn from the sets    *)
(* below.                                                                  *)
(***************************************************************************)
\* ages in hours on both sides of every step of the freshness score
ScoreAges == {0, 5, 6, 23, 24, 71, 72, 167, 168, 200}

ScoreDates == {None, Aware} \cup {Naive(h) : h \in ScoreAges}

ScoreCredibility == {None, Some(0), Some(-1000), Some(80), Some(100000)}

ScoreEngagement == {None, Some(0), Some(-500), Some(90)}

ScoreTitles ==
    {<<"c", "h", "i", "p", " ", "f", "a", "b">>,
     <<"t", "r", "e", "n", "d", "i", "n", "g", " ", "a", "r", "t", "i", "f", "i", "c", "i", "a", "l", " ", "n", "e", "w", " ", "i", "n", "t", "e", "l", "l", "i", "g", "e", "n", "c", "e">>}

T_trending == <<"t", "r", "e", "n", "d", "i", "n", "g">>

T_artificial_intelligence ==
    <<"a", "r", "t", "i", "f", "i", "c", "i", "a", "l", " ", "i", "n", "t", "e", "l", "l", "i", "g", "e", "n", "c", "e">>

\* tags that are not in tag_weights
T_Fab == <<"F", "a", "b">>

T_chip_maker == <<"c", "h", "i", "p", " ", "m", "a", "k", "e", "r">>

T_chip_fab_plant == <<"c", "h", "i", "p", " ", "f", "a", "b", " ", "p", "l", "a", "n", "t">>

ScoreTags ==
    {<<>>, <<T_ai>>, <<T_trending, T_artificial_intelligence>>, <<T_Fab, T_ai>>,
     <<T_chip_maker, T_chip_fab_plant>>}

ScoreIdle ==
    [pc |-> "idle", article |-> NewsItem(0, <<>>, <<>>, None), tags |-> <<>>,
     categories |-> <<>>, tag_score |-> None, category_score |-> None,
     content_score |-> None, freshness_score |-> None, relevance_score |-> None]

ScoreInit ==
    \E title \in ScoreTitles, published_at \in ScoreDates,
       credibility_score \in ScoreCredibility, engagement_score \in ScoreEngagement,
       trusted \in BOOLEAN, category \in {None, Some("ai")},
       tags \in ScoreTags, categories \in FilterCategories :
        sq = [ScoreIdle EXCEPT
                 !.pc = "tag",
                 !.article = [NewsItem(1, title, <<>>, published_at) EXCEPT
                                 !.credibility_score = credibility_score,
                                 !.engagement_score = engagement_score,
                                 !.source = IF trusted THEN <<"R", "e", "u", "t", "e", "r", "s">>
                                            ELSE <<>>,
                                 !.image_url = IF trusted THEN Some(<<"u">>) ELSE None,
                                 !.category = category],
                 !.tags = tags, !.categories = categories]

\* line 97
ScoreTag ==
    /\ UNCHANGED not_sq
    /\ sq.pc = "tag"
    /\ sq' = [sq EXCEPT !.pc = "category",
                        !.tag_score = Some(_calculate_tag_relevance(sq.article, sq.tags))]

\* line 98
ScoreCategory ==
    /\ UNCHANGED not_sq
    /\ sq.pc = "category"
    /\ sq' = [sq EXCEPT !.pc = "quality",
                        !.category_score =
                            Some(_calculate_category_relevance(sq.article, sq.categories))]

\* line 99
ScoreQuality ==
    /\ UNCHANGED not_sq
    /\ sq.pc = "quality"
    /\ sq' = [sq EXCEPT !.pc = "freshness",
                        !.content_score = Some(_calculate_content_quality(sq.article))]

\* line 100; a TypeError goes to the handler of lines 113-117
ScoreFreshness ==
    /\ UNCHANGED not_sq
    /\ sq.pc = "freshness"
    /\ sq' = IF ScoringRaises(sq.article)
             THEN [sq EXCEPT !.pc = "done", !.relevance_score = Some(RInt(50))]
             ELSE [sq EXCEPT !.pc = "combine",
                             !.freshness_score = Some(_calculate_freshness_score(sq.article))]

\* lines 103-110
ScoreCombine ==
    /\ UNCHANGED not_sq
    /\ sq.pc = "combine"
    /\ sq' = [sq EXCEPT !.pc = "done",
                        !.relevance_score =
                            Some(final_score(sq.tag_score[1], sq.category_score[1],
                                             sq.content_score[1], sq.freshness_score[1]))]

ScoreNext == ScoreTag \/ ScoreCategory \/ ScoreQuality \/ ScoreFreshness \/ ScoreCombine

(***************************************************************************)
(* Specifications: each runs one component, the others stay idle.          *)
(***************************************************************************)
(***************************************************************************)
(* WebSocketManager (services/websocket_manager.py).  active_connections   *)
(* is the dict as the set of its items [session_id, websocket]; a          *)
(* WebSocket object is a number, in the order the objects call connect.    *)
(* A coroutine of the manager is suspended only where it awaits the        *)
(* socket: websocket.accept() and websocket.send_text().                   *)
(***************************************************************************)
SessionIds == {"s1", "s2"}

\* dict[session_id] = websocket
DictSet(items, session_id, websocket) ==
    {it \in items : it.session_id # session_id} \cup
        {[session_id |-> session_id, websocket |-> websocket]}

\* del dict[session_id], guarded by `session_id in dict`
DictDel(items, session_id) == {it \in items : it.session_id # session_id}

\* WebSocketManager.disconnect
disconnect(w, session_id) ==
    [w EXCEPT !.active_connections = DictDel(@, session_id)]

SocketIdle ==
    [active_connections |-> {}, created |-> 0, in_flight |-> {}, last_failed |-> None]

SocketInit == wm = SocketIdle

\* lines 26-28 of connect: a new WebSocket has been accepted; it is stored
\* under its session_id and the confirmation message is awaited
SocketConnect ==
    /\ UNCHANGED not_wm
    /\ wm.created < MaxSockets
    /\ Cardinality(wm.in_flight) < MaxInFlight
    /\ \E session_id \in SessionIds :
        LET websocket == wm.created + 1
        IN wm' = [wm EXCEPT !.created = websocket,
                            !.active_connections = DictSet(@, session_id, websocket),
                            !.in_flight = @ \cup {[kind |-> "connect",
                                                   session_id |-> session_id,
                                                   websocket |-> websocket]}]

\* disconnect(session_id) called by the endpoint of a session
SocketDisconnect ==
    /\ UNCHANGED not_wm
    /\ \E session_id \in SessionIds : wm' = disconnect(wm, session_id)

\* lines 52-55 of send_update: the session is registered, its websocket is
\* read from the dict and _send_message awaits websocket.send_text
SocketSendBegin ==
    /\ UNCHANGED not_wm
    /\ Cardinality(wm.in_flight) < MaxInFlight
    /\ \E it \in wm.active_connections :
        /\ [kind |-> "update", session_id |-> it.session_id,
            websocket |-> it.websocket] \notin wm.in_flight
        /\ wm' = [wm EXCEPT !.in_flight = @ \cup {[kind |-> "update",
                                                   session_id |-> it.session_id,
                                                   websocket |-> it.websocket]}]

\* the awaited send_text returns
SocketSendDone ==
    /\ UNCHANGED not_wm
    /\ \E send \in wm.in_flight :
        wm' = [wm EXCEPT !.in_flight = @ \ {send}]

\* the awaited send_text (or json.dumps before it) raises: _send_message
\* logs and re-raises; send_update logs and calls disconnect(session_id)
\* (lines 63-66); connect lets the exception out and leaves the dict alone
SocketSendFail ==
    /\ UNCHANGED not_wm
    /\ \E send \in wm.in_flight :
        LET w1 == [wm EXCEPT !.in_flight = @ \ {send}]
            w2 == IF send.kind = "update"
                  THEN disconnect(w1, send.session_id) ELSE w1
        IN wm' = [w2 EXCEPT !.last_failed =
                                Some([kind |-> send.kind,
                                      session_id |-> send.session_id,
                                      websocket |-> send.websocket,
                                      removed |-> wm.active_connections \
                                                  w2.active_connections])]

SocketNext ==
    \/ SocketConnect
    \/ SocketDisconnect
    \/ SocketSendBegin
    \/ SocketSendDone
    \/ SocketSendFail

(***************************************************************************)
(* AgentOrchestrator (services/agent_orchestrator.py): start_discovery and *)
(* the task _run_discovery_demo it creates.  A session_id (uuid4) is the   *)
(* number of the call that made it.  A task is suspended where it awaits:  *)
(* websocket_manager.send_update, which handles its own exceptions, and    *)
(* asyncio.sleep(1).                                                       *)
(***************************************************************************)
\* the four entries of `agents`, three steps each
AgentCount == 4

total_steps == AgentCount * 3

\* len(mock_templates)
MockTemplates == 3

\* max_articles as the caller passes it: the default of 20, or a value that
\* is no int and cannot be a slice index (mock_templates[:max_articles]
\* raises TypeError)
MaxArticlesValues ==
    {[is_int |-> TRUE, n |-> 20], [is_int |-> FALSE, n |-> 0]}

\* len(self._generate_mock_articles(tags, max_articles)) for an int
MockCount(max_articles) == Min(MockTemplates, max_articles.n)

OrchestratorIdle ==
    [active_sessions |-> <<>>, tasks |-> <<>>,
     stats |-> [total_sessions |-> 0, total_articles_processed |-> 0],
     calls |-> 0]

OrchestratorInit == orc = OrchestratorIdle

\* start_discovery, lines 46-64 and, without a manager, to its return: the
\* session is stored as "starting" and counted; with a manager the initial
\* update is awaited before the task is created
StartDiscovery ==
    /\ UNCHANGED not_orc
    /\ orc.calls < MaxSessions
    /\ \E max_articles \in MaxArticlesValues, websocket_manager \in BOOLEAN :
        orc' = [orc EXCEPT
                   !.calls = @ + 1,
                   !.active_sessions = Append(@, [status |-> "starting",
                                                  articles_found |-> 0]),
                   !.stats.total_sessions = @ + 1,
                   !.tasks = Append(@, [pc |-> IF websocket_manager THEN "initial_update"
                                               ELSE "created",
                                        max_articles |-> max_articles,
                                        websocket_manager |-> websocket_manager,
                                        current_step |-> 0,
                                        mock_articles |-> 0])]

\* lines 75-80: the initial update has settled, create_task, return
StartDiscoveryReturn ==
    /\ UNCHANGED not_orc
    /\ \E session_id \in DOMAIN orc.tasks :
        /\ orc.tasks[session_id].pc = "initial_update"
        /\ orc' = [orc EXCEPT !.tasks[session_id].pc = "created"]

\* where the loop of line 108 stands after `current_step` steps: before a
\* send with a manager, else asleep
StepPc(task) == IF task.websocket_manager THEN "send" ELSE "sleep"

\* lines 93-95 and the way to the first await of the loop: the task starts,
\* the session is "running"
RunBegin ==
    /\ UNCHANGED not_orc
    /\ \E session_id \in DOMAIN orc.tasks :
        /\ orc.tasks[session_id].pc = "created"
        /\ orc' = [orc EXCEPT !.active_sessions[session_id].status = "running",
                              !.tasks[session_id].pc = StepPc(orc.tasks[session_id])]

\* the awaited send_update of a step has settled: asyncio.sleep(1) is awaited
RunSent ==
    /\ UNCHANGED not_orc
    /\ \E session_id \in DOMAIN orc.tasks :
        /\ orc.tasks[session_id].pc = "send"
        /\ orc' = [orc EXCEPT !.tasks[session_id].pc = "sleep"]

\* the except branch of lines 182-199 for a task in its loop
RunFailed(o, session_id) ==
    [o EXCEPT !.active_sessions[session_id].status = "error",
              !.tasks[session_id].pc = IF o.tasks[session_id].websocket_manager
                                       THEN "error_update" ELSE "done"]

\* lines 163-166 and on to the final update
RunCompleted(o, session_id) ==
    LET found == o.tasks[session_id].mock_articles
    IN [o EXCEPT !.active_sessions[session_id].status = "completed",
                 !.active_sessions[session_id].articles_found = found,
                 !.stats.total_articles_processed = @ + found,
                 !.tasks[session_id].pc = IF o.tasks[session_id].websocket_manager
                                          THEN "final_update" ELSE "done"]

\* RunSlept with the session updated as soon as the mock articles are made
RunSleptCountsEarly ==
    /\ UNCHANGED not_orc
    /\ \E session_id \in DOMAIN orc.tasks :
        LET task == orc.tasks[session_id]
            step == task.current_step + 1
            generates == step = 2
        IN /\ task.pc = "sleep"
           /\ orc' =
                IF generates /\ ~task.max_articles.is_int THEN RunFailed(orc, session_id)
                ELSE LET o1 == [orc EXCEPT
                                   !.tasks[session_id].current_step = step,
                                   !.tasks[session_id].mock_articles =
                                       IF generates THEN MockCount(task.max_articles) ELSE @,
                                   !.active_sessions[session_id].articles_found =
                                       IF generates THEN MockCount(task.max_articles) ELSE @,
                                   !.tasks[session_id].pc = StepPc(task)]
                     IN IF step = total_steps THEN RunCompleted(o1, session_id) ELSE o1

\* asyncio.sleep(1) is over: current_step += 1 and the task runs to its
\* next await.  Before the third step of NewsSearchAgent the mock articles
\* are made (line 142), where a max_articles that is no int raises; after
\* the last step the session is completed
RunSlept ==
    /\ UNCHANGED not_orc
    /\ \E session_id \in DOMAIN orc.tasks :
        LET task == orc.tasks[session_id]
            step == task.current_step + 1
            generates == step = 2
        IN /\ task.pc = "sleep"
           /\ orc' =
                IF generates /\ ~task.max_articles.is_int THEN RunFailed(orc, session_id)
                ELSE LET o1 == [orc EXCEPT
                                   !.tasks[session_id].current_step = step,
                                   !.tasks[session_id].mock_articles =
                                       IF generates THEN MockCount(task.max_articles) ELSE @,
                                   !.tasks[session_id].pc = StepPc(task)]
                     IN IF step = total_steps THEN RunCompleted(o1, session_id) ELSE o1

\* the final update (line 169) or the error update (line 191) has settled:
\* the task ends
RunEnd ==
    /\ UNCHANGED not_orc
    /\ \E session_id \in DOMAIN orc.tasks :
        /\ orc.tasks[session_id].pc \in {"final_update", "error_update"}
        /\ orc' = [orc EXCEPT !.tasks[session_id].pc = "done"]

OrchestratorNext ==
    \/ StartDiscovery
    \/ StartDiscoveryReturn
    \/ RunBegin
    \/ RunSent
    \/ RunSlept
    \/ RunEnd

\* the event loop runs every task that is ready: a send_update or a sleep
\* that is awaited settles and its task goes on
OrchestratorFairness ==
    /\ WF_vars(StartDiscoveryReturn)
    /\ WF_vars(RunBegin)
    /\ WF_vars(RunSent)
    /\ WF_vars(RunSlept)
    /\ WF_vars(RunEnd)

InitDedupe ==
    /\ DedupeInit
    /\ sa = SearchIdle /\ tf = FilterIdle /\ rk = RankIdle /\ sc = SocialIdle
    /\ sq = ScoreIdle /\ wm = SocketIdle /\ orc = OrchestratorIdle

InitSearch ==
    /\ SearchInit
    /\ dd = DedupeIdle /\ tf = FilterIdle /\ rk = RankIdle /\ sc = SocialIdle
    /\ sq = ScoreIdle /\ wm = SocketIdle /\ orc = OrchestratorIdle

InitFilter ==
    /\ FilterInit
    /\ dd = DedupeIdle /\ sa = SearchIdle /\ rk = RankIdle /\ sc = SocialIdle
    /\ sq = ScoreIdle /\ wm = SocketIdle /\ orc = OrchestratorIdle

InitRank ==
    /\ RankInit
    /\ dd = DedupeIdle /\ sa = SearchIdle /\ tf = FilterIdle /\ sc = SocialIdle
    /\ sq = ScoreIdle /\ wm = SocketIdle /\ orc = OrchestratorIdle

InitSocial ==
    /\ SocialInit
    /\ dd = DedupeIdle /\ sa = SearchIdle /\ tf = FilterIdle /\ rk = RankIdle
    /\ sq = ScoreIdle /\ wm = SocketIdle /\ orc = OrchestratorIdle

InitScore ==
    /\ ScoreInit
    /\ dd = DedupeIdle /\ sa = SearchIdle /\ tf = FilterIdle /\ rk = RankIdle
    /\ sc = SocialIdle /\ wm = SocketIdle /\ orc = OrchestratorIdle

InitSocket ==
    /\ SocketInit
    /\ dd = DedupeIdle /\ sa = SearchIdle /\ tf = FilterIdle /\ rk = RankIdle
    /\ sc = SocialIdle /\ sq = ScoreIdle /\ orc = OrchestratorIdle

InitOrchestrator ==
    /\ OrchestratorInit
    /\ dd = DedupeIdle /\ sa = SearchIdle /\ tf = FilterIdle /\ rk = RankIdle
    /\ sc = SocialIdle /\ sq = ScoreIdle /\ wm = SocketIdle

SpecDedupe == InitDedupe /\ [][DedupeNext]_vars

SpecSearch == InitSearch /\ [][SearchNext]_vars

SpecFilter == InitFilter /\ [][FilterNext]_vars

SpecSocial == InitSocial /\ [][SocialNext]_vars

SpecScore == InitScore /\ [][ScoreNext]_vars

SpecRank == InitRank /\ [][RankNext]_vars

SpecSocket == InitSocket /\ [][SocketNext]_vars

SpecOrchestrator == InitOrchestrator /\ [][OrchestratorNext]_vars

SpecOrchestratorLive ==
    InitOrchestrator /\ [][OrchestratorNext]_vars /\ OrchestratorFairness

(***************************************************************************)
(* Claims about _remove_duplicates (under SpecDedupe).                     *)
(***************************************************************************)
TitlesOf(articles) == [i \in DOMAIN articles |-> articles[i].title]

KeptIds(articles) == {articles[k].id : k \in DOMAIN articles}

\* Title words and the similarity test as spec.md 4.1 states them:
\* |A \cap B| / max(|A|, |B|) strictly above 0.70
TitleTokens(title) == Range(Split(Lower(title)))

NearDuplicates(t1, t2) ==
    LET A == TitleTokens(t1)
        B == TitleTokens(t2)
    IN /\ Max(Cardinality(A), Cardinality(B)) > 0
       /\ 10 * Cardinality(A \cap B) > 7 * Max(Cardinality(A), Cardinality(B))

DedupReturned == dd.pc \in {"deduped", "again"} /\ ~dd.first.raised

SourceNames == {Sources[k].name : k \in DOMAIN Sources}

RECURSIVE Concat(_)
Concat(lists) == IF lists = <<>> THEN <<>> ELSE Head(lists) \o Concat(Tail(lists))

SearchReturned == sa.pc = "done" /\ sa.result.kind = "ok"

\* C1: when the fetch of a source adapter raises, that adapter contributes
\* an empty list, every other enabled adapter is still invoked, the items
\* the others returned are all in the merged list handed to deduplication,
\* and the caller receives a normal result (no 'error' key).
C1_AdapterFailureIsolated ==
    (sa.pc = "done" /\ sa.failed # {}) =>
        /\ \A k \in DOMAIN sa.fetched : sa.fetched[k] \in sa.failed => sa.returned[k] = <<>>
        /\ Range(sa.fetched) = SourceNames
        /\ sa.all_articles = Concat(sa.returned)
        /\ sa.result.kind = "ok"

\* C3: when every source adapter fails or returns nothing, execute returns
\* a well-formed non-error result with articles = [], total_found = 0,
\* unique_found = 0, final_count = 0, and the agent ends COMPLETED.
C3_AllAdaptersEmptyWellFormed ==
    (sa.pc = "done" /\ Range(sa.fetched) = SourceNames /\ sa.all_articles = <<>>) =>
        /\ sa.result = [kind |-> "ok", articles |-> <<>>, total_found |-> 0,
                        unique_found |-> 0, final_count |-> 0]
        /\ sa.status = "completed"

C3_Witness ==
    /\ sa.pc = "done"
    /\ sa.failed = SourceNames
    /\ sa.result.kind = "ok"
    /\ sa.result.articles = <<>>

C10_SearchOnlyTruncates ==
    SearchReturned =>
        LET max_articles == IF sa.kwargs.max_articles = None THEN 20
                            ELSE sa.kwargs.max_articles[1]
            articles == sa.result.articles
        IN /\ KeptIds(sa.ranked_articles) = KeptIds(sa.unique_articles)
           /\ Len(sa.ranked_articles) = Len(sa.unique_articles)
           /\ sa.result.unique_found = Len(sa.unique_articles)
           /\ articles = SubSeq(sa.ranked_articles, 1, Min(max_articles, Len(sa.ranked_articles)))
           /\ sa.result.final_count = Min(sa.result.unique_found, max_articles)
           /\ \A k \in 1..(Len(articles) - 1) :
                  RLe(articles[k + 1].relevance_score[1], articles[k].relevance_score[1])
           /\ (sa.world = "scenario" /\ sa.failed = {}) =>
                  (sa.result.unique_found <= 10 /\ sa.result.final_count = 5)

C10_Witness ==
    /\ SearchReturned
    /\ sa.world = "scenario"
    /\ sa.failed = {}
    /\ sa.result.total_found = 15
    /\ sa.result.unique_found = 10
    /\ sa.result.final_count = 5

(***************************************************************************)
(* Claims about TagFilterAgent.execute (under SpecFilter).                 *)
(***************************************************************************)
FilterReturned == tf.pc = "done" /\ tf.result.kind = "ok"

\* the score the four scorers give an article whose scoring does not raise
NormalScore(article, kw) ==
    final_score(_calculate_tag_relevance(article, kw.tags),
                _calculate_category_relevance(article, kw.categories),
                _calculate_content_quality(article),
                _calculate_freshness_score(article))

\* C2: an item whose scoring raises does not abort the batch: it gets the
\* relevance_score 50.0 and is among the returned articles, every other
\* item is scored normally, and no item is left out of the scored batch.
C2_ScoringFailureKeepsItem ==
    /\ tf.pc = "scoring" => Len(tf.scored_articles) = tf.i
    /\ (tf.pc = "done" /\ tf.result.kind # "ok") =>
           (tf.kwargs.articles = <<>> \/ ~tf.kwargs.has_articles \/ ~tf.kwargs.has_tags)
    /\ FilterReturned =>
        LET X == tf.kwargs.articles
            scored == tf.scored_articles
            out == tf.result.articles
        IN /\ Len(scored) = Len(X)
           /\ \A i \in DOMAIN X :
                 /\ scored[i] = [X[i] EXCEPT !.relevance_score = scored[i].relevance_score]
                 /\ IF ScoringRaises(X[i])
                    THEN /\ scored[i].relevance_score = Some(RInt(50))
                         /\ \E k \in DOMAIN out : out[k] = scored[i]
                    ELSE scored[i].relevance_score = Some(NormalScore(X[i], tf.kwargs))

C2_Witness ==
    /\ FilterReturned
    /\ \E i, j \in DOMAIN tf.kwargs.articles :
          /\ ScoringRaises(tf.kwargs.articles[i])
          /\ \E k \in DOMAIN tf.result.articles :
                 /\ tf.result.articles[k].id = i
                 /\ tf.result.articles[k].relevance_score = Some(RInt(50))
          /\ ~ScoringRaises(tf.kwargs.articles[j])
          /\ tf.scored_articles[j].relevance_score # Some(RInt(50))

\* C9: the returned articles are exactly the scored items whose final
\* relevance_score is at least 30, in ranked order: an item below 30 is
\* excluded, an item at 30 or above is included, and filtered_count is the
\* number of returned articles.
C9_FloorAtThirty ==
    FilterReturned =>
        LET scored == tf.scored_articles
            out == tf.result.articles
        IN /\ \A i \in DOMAIN scored :
                 (\E k \in DOMAIN out : out[k] = scored[i])
                     <=> RLe(RInt(30), scored[i].relevance_score[1])
           /\ \A k \in DOMAIN out : \E i \in DOMAIN scored : out[k] = scored[i]
           /\ \A k, l \in DOMAIN out : k < l =>
                 /\ out[k].id # out[l].id
                 /\ RLe(out[l].relevance_score[1], out[k].relevance_score[1])
           /\ tf.result.filtered_count = Len(out)

C9_Witness ==
    /\ FilterReturned
    /\ \E i, j \in DOMAIN tf.scored_articles :
          /\ tf.scored_articles[i].relevance_score = Some(RInt(30))
          /\ \E k \in DOMAIN tf.result.articles : tf.result.articles[k].id = i
          /\ RLt(tf.scored_articles[j].relevance_score[1], RInt(30))
          /\ \A k \in DOMAIN tf.result.articles : tf.result.articles[k].id # j
    /\ tf.result.filtered_count = 1

(***************************************************************************)
(* Claims about the two ranking paths (under SpecRank).                    *)
(***************************************************************************)
\* non-increasing relevance_score, equal scores in the order of the input
\* (the id of an article is its position in the input)
SortedStable(out) ==
    \A k, l \in DOMAIN out : k < l =>
        /\ RLe(out[l].relevance_score[1], out[k].relevance_score[1])
        /\ out[l].relevance_score = out[k].relevance_score => out[k].id < out[l].id

\* C8: the list either ranking path returns is sorted by non-increasing
\* relevance_score with equal scores in input order, and ranking the same
\* input again returns the same order.
C8_RankedSortedAndStable ==
    /\ \A r \in DOMAIN rk.search_runs :
          ~rk.search_runs[r].raised =>
              /\ SortedStable(rk.search_runs[r].articles)
              /\ KeptIds(rk.search_runs[r].articles) = DOMAIN rk.articles
              /\ Len(rk.search_runs[r].articles) = Len(rk.articles)
              /\ rk.search_runs[r] = rk.search_runs[1]
    /\ \A r \in DOMAIN rk.filter_runs :
          /\ SortedStable(rk.filter_runs[r])
          /\ rk.filter_runs[r] = rk.filter_runs[1]

C8_Witness ==
    /\ Len(rk.search_runs) = 2
    /\ Len(rk.filter_runs) = 2
    /\ ~rk.search_runs[1].raised
    /\ Len(rk.search_runs[2].articles) = 3
    /\ \E k \in 1..2 :
          /\ rk.search_runs[2].articles[k].relevance_score =
                 rk.search_runs[2].articles[k + 1].relevance_score
          /\ rk.search_runs[2].articles[k].id < rk.search_runs[2].articles[k + 1].id
    /\ Len(rk.filter_runs[2]) = 3
    /\ \E k \in 1..2 :
          /\ rk.filter_runs[2][k].relevance_score = rk.filter_runs[2][k + 1].relevance_score
          /\ rk.filter_runs[2][k].id < rk.filter_runs[2][k + 1].id
    /\ rk.filter_runs[2][1].relevance_score # rk.filter_runs[2][3].relevance_score

(***************************************************************************)
(* Claims about progress reporting (under SpecSearch and SpecFilter).      *)
(***************************************************************************)
\* what NewsSearchAgent.execute does for the caller when no reporter is
\* attached, for the request and the merged adapter results of a run
SearchOutcomeWithoutReporter(a) ==
    IF ~validate_kwargs({"tags"}, a.kwargs)
    THEN [kind |-> "exception", exc |-> "UnboundLocalError"]
    ELSE LET deduped == _remove_duplicates(a.all_articles)
             ranked == _rank_articles(deduped.unique_articles, a.kwargs.tags)
             final_articles == SubSeq(ranked.articles, 1,
                                      Min(MaxArticlesOf(a.kwargs), Len(ranked.articles)))
         IN IF deduped.raised \/ ranked.raised
            THEN [kind |-> "error", articles |-> <<>>]
            ELSE [kind |-> "ok", articles |-> final_articles,
                  total_found |-> Len(a.all_articles),
                  unique_found |-> Len(deduped.unique_articles),
                  final_count |-> Len(final_articles)]

\* the same for TagFilterAgent.execute and the articles of its request
FilterOutcomeWithoutReporter(a) ==
    IF ~validate_kwargs({"articles", "tags"}, a.kwargs)
    THEN [kind |-> "exception", exc |-> "UnboundLocalError"]
    ELSE IF a.kwargs.articles = <<>>
    THEN [kind |-> "empty", filtered_articles |-> <<>>]
    ELSE LET high_relevance_articles ==
                 high_relevance(SortedByRelevance(
                     ScoreLoop(<<>>, a.kwargs.articles, 1, a.kwargs.tags,
                               a.kwargs.categories)))
         IN [kind |-> "ok", articles |-> high_relevance_articles,
             filtered_count |-> Len(high_relevance_articles),
             original_count |-> Len(a.kwargs.articles),
             average_relevance |-> average_relevance(high_relevance_articles)]

\* C11: reporting never changes the outcome: for the same adapter results
\* (the same articles), execute gives the caller what it gives with no
\* reporter attached, whether the reports are sent, fail or are not made,
\* and no failure of a reporting call reaches the caller.
C11_ReportingNeverChangesOutcome ==
    /\ sa.pc = "done" => sa.result = SearchOutcomeWithoutReporter(sa)
    /\ tf.pc = "done" => tf.result = FilterOutcomeWithoutReporter(tf)

\* the positions of the reporting calls of a run made with progress p
ProgressCalls(updates, p) == {j \in DOMAIN updates : updates[j].progress = RInt(p)}

\* the positions of the calls made when an adapter has completed
\* ("Found ... articles from ...", with the source in the payload)
AdapterCompletedCalls(updates) == {j \in DOMAIN updates : "source" \in updates[j].data}

C13_MergeAfterAllSettled ==
    [][/\ (sa.pc = "sources" /\ sa'.pc # "sources") =>
              /\ sa.outstanding = None
              /\ Len(sa.returned) = TotalSources
              /\ Range(sa.fetched) = SourceNames
              /\ sa.all_articles = Concat(sa.returned)
       /\ (sa.pc \in {"rank", "done"}) =>
              /\ sa'.all_articles = sa.all_articles
              /\ sa'.returned = sa.returned
              /\ sa'.fetched = sa.fetched
              /\ sa'.outstanding = None]_vars

C13_Witness ==
    /\ sa.pc = "rank"
    /\ Len(sa.returned) = TotalSources
    /\ sa.failed = {"RSS_Feeds"}
    /\ Len(sa.all_articles) = 2
    /\ Len(sa.unique_articles) = 2

\* C14: when the endpoint of one source never answers, the request still
\* completes: the hung adapter gives an empty result, the other adapters
\* are still queried, and their items are deduplicated, ranked and
\* returned.  (Every state before "done" has a step and every step moves
\* (pc, i, outstanding) forward, so a run that keeps being scheduled
\* reaches "done"; what is stated here is the result it ends with.)
C14_HungAdapterDegrades ==
    (sa.pc = "done" /\ sa.timed_out # {}) =>
        /\ \A k \in DOMAIN sa.fetched :
               sa.fetched[k] \in sa.timed_out => sa.returned[k] = <<>>
        /\ Range(sa.fetched) = SourceNames
        /\ sa.all_articles = Concat(sa.returned)
        /\ sa.result.kind = "ok"
        /\ sa.result.unique_found = Len(_remove_duplicates(sa.all_articles).unique_articles)
        /\ KeptIds(sa.result.articles) \subseteq
               KeptIds(_remove_duplicates(sa.all_articles).unique_articles)
        /\ sa.result.final_count =
               Min(MaxArticlesOf(sa.kwargs), sa.result.unique_found)

(***************************************************************************)
(* Claims about SocialContentAgent.                                        *)
(***************************************************************************)
\* the posts made so far in the run
PostsMade ==
    Range(sc.social_posts) \cup
    UNION {Range(sc.optimized_articles[k].social_posts) : k \in DOMAIN sc.optimized_articles}

\* len(content + ' ' + ' '.join(hashtags))
AssembledLength(post) == Len(post.content \o <<" ">> \o Join(post.hashtags, <<" ">>))

\* C15: every post _create_social_post produces fits its platform: the
\* content, a space and the hashtags joined by spaces are together at most
\* max_chars long.
C15_PostFitsPlatform ==
    \A post \in PostsMade :
        AssembledLength(post) <= platform_configs[post.platform].max_chars

\* C20: the hashtags of every post have no repeated entry and are at most
\* hashtag_limit of the platform.
C20_HashtagsDistinctAndCapped ==
    \A post \in PostsMade :
        /\ Len(post.hashtags) <= platform_configs[post.platform].hashtag_limit
        /\ \A k, m \in DOMAIN post.hashtags : post.hashtags[k] = post.hashtags[m] => k = m

(***************************************************************************)
(* Claims about the scorers of TagFilterAgent.                             *)
(***************************************************************************)
\* C16: the content-quality score of every item is within [0, 100], also
\* for an item whose credibility_score or engagement_score is negative or
\* far above 100.
C16_QualityWithinBounds ==
    sq.content_score # None =>
        /\ RLe(RInt(0), sq.content_score[1])
        /\ RLe(sq.content_score[1], RInt(100))

\* C17: the relevance_score the tag filter assigns to an item is
\* 0.4 * tag score + 0.2 * category score + 0.2 * quality + 0.2 * freshness
\* of the item's four sub-scores; for 90, 60, 70 and 80 it is 78.
C17_WeightedCombine ==
    (sq.pc = "done" /\ sq.freshness_score # None) =>
        /\ RMul(sq.relevance_score[1], RInt(10)) =
               RAdd(RAdd(RMul(RInt(4), sq.tag_score[1]), RMul(RInt(2), sq.category_score[1])),
                    RAdd(RMul(RInt(2), sq.content_score[1]),
                         RMul(RInt(2), sq.freshness_score[1])))
        /\ ( /\ sq.tag_score = Some(RInt(90))
             /\ sq.category_score = Some(RInt(60))
             /\ sq.content_score = Some(RInt(70))
             /\ sq.freshness_score = Some(RInt(80)) ) => sq.relevance_score = Some(RInt(78))

C17_Witness ==
    /\ sq.pc = "done"
    /\ sq.tag_score = Some(RInt(90))
    /\ sq.category_score = Some(RInt(60))
    /\ sq.content_score = Some(RInt(70))
    /\ sq.freshness_score = Some(RInt(80))
    /\ sq.relevance_score = Some(RInt(78))

\* C19: the freshness score is a step function of the age in hours with
\* strict upper bounds: below 6 it is 100, from 6 and below 24 it is 80,
\* from 24 and below 72 it is 60, from 72 and below 168 it is 40, from 168
\* on it is 20; an item without a publication date gets 50.
C19_FreshnessSteps ==
    sq.freshness_score # None =>
        IF sq.article.published_at = None THEN sq.freshness_score = Some(RInt(50))
        ELSE LET age == sq.article.published_at[1].hours_old
             IN /\ age < 6 => sq.freshness_score = Some(RInt(100))
                /\ (6 <= age /\ age < 24) => sq.freshness_score = Some(RInt(80))
                /\ (24 <= age /\ age < 72) => sq.freshness_score = Some(RInt(60))
                /\ (72 <= age /\ age < 168) => sq.freshness_score = Some(RInt(40))
                /\ 168 <= age => sq.freshness_score = Some(RInt(20))

C19_Witness ==
    /\ sq.article.published_at = Naive(168)
    /\ sq.freshness_score = Some(RInt(20))
    /\ sq.pc = "done"

\* C18: for an empty list of requested tags the relevance computed for any
\* item is the neutral 50.0, in both ranking paths: the tag score of the
\* tag filter, and the relevance of _rank_articles, which is the whole
\* relevance_score of an item without a date (no freshness boost).
C18_EmptyTagsNeutral ==
    rk.tags = <<>> =>
        /\ \A k \in DOMAIN rk.articles :
               _calculate_tag_relevance(rk.articles[k], rk.tags) = RInt(50)
        /\ \A r \in DOMAIN rk.search_runs :
               \A k \in DOMAIN rk.search_runs[r].articles :
                   rk.search_runs[r].articles[k].published_at = None =>
                       rk.search_runs[r].articles[k].relevance_score = Some(RInt(50))

\* the relevance_score a list of scored articles gives the article of an id
ScoreOf(articles, id) ==
    LET hits == {k \in DOMAIN articles : articles[k].id = id}
    IN IF hits = {} THEN None ELSE articles[CHOOSE k \in hits : TRUE].relevance_score

\* the articles of the original list whose ids a ranked list holds, in the
\* order of the original list and without a relevance_score
OriginalOf(ranked) ==
    SelectSeq(rk.original, LAMBDA a : a.id \in KeptIds(ranked))

\* C21: ranking a list with one tag set and then ranking the result with a
\* second tag set gives every item the relevance_score that ranking the
\* original items directly with the second tag set gives it, in both
\* ranking paths: the new score replaces the old one.
C21_RescoreReplaces ==
    rk.rescored # None =>
        LET r == rk.rescored[1]
            direct == IF r.path = "search"
                      THEN _rank_articles(OriginalOf(r.ranked), r.tags).articles
                      ELSE ScoreLoop(<<>>, OriginalOf(r.ranked), 1, r.tags, rk.categories)
        IN /\ \A k \in DOMAIN r.again :
                  r.again[k].relevance_score = ScoreOf(direct, r.again[k].id)
           /\ r.path = "search" => KeptIds(r.again) = KeptIds(r.ranked)

\* a re-ranking by each path changed the score of an item
C21_Witness ==
    /\ rk.rescored # None
    /\ rk.rescored[1].path = "search"
    /\ rk.rescored[1].tags # rk.tags
    /\ \E k \in DOMAIN rk.rescored[1].again :
          LET a == rk.rescored[1].again[k]
          IN /\ ScoreOf(rk.rescored[1].ranked, a.id) # a.relevance_score
             /\ RLt(RInt(0), ScoreOf(rk.rescored[1].ranked, a.id)[1])
             /\ RLt(RInt(0), a.relevance_score[1])
             /\ RLt(a.relevance_score[1], RInt(100))

\* C22: deduplication never fails on titles without words: it returns for
\* every input, an item whose title is empty or only whitespace is kept
\* when no earlier item has such a title and dropped when one has, and it
\* is never what makes an item with words in its title a duplicate.
C22_EmptyTitlesHandled ==
    dd.pc \in {"deduped", "again"} =>
        /\ ~dd.first.raised
        /\ \A i \in DOMAIN dd.articles :
               TitleTokens(dd.articles[i].title) = {} =>
                   (i \in KeptIds(dd.first.unique_articles) <=>
                        ~\E j \in 1..(i - 1) : TitleTokens(dd.articles[j].title) = {})
        /\ \A i \in DOMAIN dd.articles :
               (/\ TitleTokens(dd.articles[i].title) # {}
                /\ i \notin KeptIds(dd.first.unique_articles)) =>
                   \E j \in 1..(i - 1) :
                       /\ TitleTokens(dd.articles[j].title) # {}
                       /\ NearDuplicates(dd.articles[j].title, dd.articles[i].title)

\* the text of an item the tag scorer searches (lines 175-181)
ItemText(article) ==
    Lower(Join(<<article.title, article.description, OrEmpty(article.summary),
                 Join(article.tags, <<" ">>), Join(article.hashtags, <<" ">>)>>, <<" ">>))

\* the tier a requested tag is credited through, as a factor in tenths
TierTenths(tag, text) ==
    LET words == Split(Lower(tag))
        present == Cardinality({k \in DOMAIN words : Contains(words[k], text)})
    IN IF Contains(Lower(tag), text) THEN 10
       ELSE IF Len(words) > 1 /\ present * 100 >= 60 * Len(words) THEN 8
       ELSE IF /\ Len(words) = 1
               /\ Lower(tag) \in DOMAIN semantic_relations
               /\ \E term \in semantic_relations[Lower(tag)] : Contains(term, text)
            THEN 6
       ELSE 0

\* the weight of a tag in tenths: its entry in the weight table, or 0.5
WeightTenths(tag) ==
    IF Lower(tag) \in DOMAIN tag_weights THEN tag_weights[Lower(tag)] ELSE 5

RECURSIVE SumOver(_, _)
SumOver(f, n) == IF n = 0 THEN 0 ELSE f[n] + SumOver(f, n - 1)

\* C23: the tag score of an item is min(100 * credited / total, 100) where
\* every requested tag adds its weight (0.5 when it is not in the table) to
\* the total and is credited through one tier: its weight when the whole
\* tag is in the item text, else 0.8 of it for a multi-word tag with at
\* least 60% of its words in the text, else 0.6 of it for a single word
\* with a related term in the text, else nothing; the score is in [0,100].
C23_TagTiers ==
    (sq.tag_score # None /\ sq.tags # <<>>) =>
        LET text == ItemText(sq.article)
            credited == SumOver([k \in DOMAIN sq.tags |->
                                    WeightTenths(sq.tags[k]) * TierTenths(sq.tags[k], text)],
                                Len(sq.tags))
            total == SumOver([k \in DOMAIN sq.tags |-> WeightTenths(sq.tags[k])],
                             Len(sq.tags))
        IN /\ sq.tag_score[1] = RMin(Rat(100 * credited, 10 * total), RInt(100))
           /\ RLe(RInt(0), sq.tag_score[1])
           /\ RLe(sq.tag_score[1], RInt(100))

\* a multi-word tag that is not in the table, two of its three words in the
\* text, beside a multi-word tag with one word of two: 0.8 * 0.5 of 1.0
C23_Witness ==
    /\ sq.tags = <<T_chip_maker, T_chip_fab_plant>>
    /\ TierTenths(T_chip_maker, ItemText(sq.article)) = 0
    /\ TierTenths(T_chip_fab_plant, ItemText(sq.article)) = 8
    /\ sq.tag_score = Some(RInt(40))

\* what _rank_articles added to the tag overlap score of a ranked article
BoostAdded(article) ==
    RAdd(article.relevance_score[1],
         RMul(RInt(-1), SearchScore([article EXCEPT !.published_at = None], TagWords(rk.tags))))

\* C24: in the ranking of the search agent the freshness boost added to an
\* item's relevance is between 0 and 10 for every publication time, one in
\* the future included: 10 at age 0 (unless the cap of 100 cuts it), 0 from
\* 24 hours on; and the relevance_score is within [0,100].
C24_FreshnessBoostBounded ==
    \A r \in DOMAIN rk.search_runs :
        \A k \in DOMAIN rk.search_runs[r].articles :
            LET article == rk.search_runs[r].articles[k]
                added == BoostAdded(article)
            IN /\ RLe(RInt(0), article.relevance_score[1])
               /\ RLe(article.relevance_score[1], RInt(100))
               /\ RLe(RInt(0), added)
               /\ RLe(added, RInt(10))
               /\ article.published_at = None => added = RInt(0)
               /\ article.published_at # None =>
                      /\ article.published_at[1].hours_old >= 24 => added = RInt(0)
                      /\ (/\ article.published_at[1].hours_old = 0
                          /\ RLt(article.relevance_score[1], RInt(100))) => added = RInt(10)

\* the quality score of the item without its two optional scores: 50 and
\* the completeness, image and source bonuses (at most 95)
QualityWithoutScores(article) ==
    _calculate_content_quality([article EXCEPT !.credibility_score = None,
                                               !.engagement_score = None])

\* C25: whenever credibility_score is present the quality score is adjusted
\* by (credibility_score - 50) * 0.3 and whenever engagement_score is
\* present by (engagement_score - 50) * 0.2, before the cap at 100; a
\* present score of 0 is adjusted for like any other.
C25_PresentScoresAdjust ==
    sq.content_score # None =>
        LET credibility == IF sq.article.credibility_score # None
                           THEN Rat((sq.article.credibility_score[1] - 50) * 3, 10)
                           ELSE RInt(0)
            engagement == IF sq.article.engagement_score # None
                          THEN Rat((sq.article.engagement_score[1] - 50) * 2, 10)
                          ELSE RInt(0)
        IN sq.content_score[1] =
               RMin(RAdd(RAdd(QualityWithoutScores(sq.article), credibility), engagement),
                    RInt(100))

\* a call of execute that has ended did not let an exception out, and
\* where it failed it returned {"error": ..., "articles": []} with the
\* agent's status ERROR
EndsWithoutException(a, required_keys) ==
    a.pc = "done" =>
        /\ a.result.kind # "exception"
        /\ a.result.kind = "error" => (a.result.articles = <<>> /\ a.status = "error")
        /\ ~validate_kwargs(required_keys, a.kwargs) => a.result.kind = "error"

\* C26: NewsSearchAgent.execute and TagFilterAgent.execute never let an
\* exception out: for any failure inside execute, a missing required
\* parameter included, with or without a websocket manager, the call
\* returns a result with an error and articles = [] and the status of the
\* agent is ERROR.
C26_ExecuteNeverRaises ==
    /\ EndsWithoutException(sa, {"tags"})
    /\ EndsWithoutException(tf, {"articles", "tags"})

\* the progress values of the updates of one run, in the order of the calls
ProgressInOrder(a) ==
    LET u == a.updates
    IN /\ u # <<>> => u[1].progress = RInt(0)
       /\ \A j, k \in DOMAIN u : j < k => RLe(u[j].progress, u[k].progress)
       /\ \A j \in DOMAIN u :
              /\ RLe(RInt(0), u[j].progress)
              /\ RLe(u[j].progress, RInt(100))
              /\ u[j].progress \notin {RInt(90), RInt(100)} => RLe(u[j].progress, RInt(80))
              /\ u[j].progress = RInt(100) =>
                     /\ j = Len(u)
                     /\ j > 1
                     /\ u[j - 1].progress = RInt(90)
                     /\ u[j].status = "completed"
                     /\ a.status = "completed"

\* C27: within one run of NewsSearchAgent.execute or TagFilterAgent.execute
\* the progress of successive updates never decreases and stays in
\* [0,100]: the first is 0, the updates per adapter or per item are at most
\* 80, the 90 update comes right before the 100 update, the 100 update is
\* made when the agent is COMPLETED, and no update follows it.
C27_ProgressMonotone ==
    /\ ProgressInOrder(sa)
    /\ ProgressInOrder(tf)

\* a run over six articles: updates 0, 0 (article 1), 66.7 (article 6), 90
\* and 100
C27_Witness ==
    /\ tf.pc = "done"
    /\ tf.result.kind = "ok"
    /\ Len(tf.kwargs.articles) = 6
    /\ Len(tf.updates) = 5
    /\ tf.updates[3].progress = Rat(5 * 80, 6)
    /\ tf.updates[5].progress = RInt(100)

\* C28: in every result of NewsSearchAgent.execute that is not an error,
\* total_found is the number of items the adapters that did not fail
\* returned, unique_found <= total_found, final_count is the length of
\* articles, final_count <= unique_found, and every returned article is an
\* item some adapter returned in this request.
C28_CountsConsistent ==
    SearchReturned =>
        LET handed == Concat(sa.returned)
        IN /\ \A k \in DOMAIN sa.fetched :
                  sa.fetched[k] \in sa.failed \cup sa.timed_out => sa.returned[k] = <<>>
           /\ sa.result.total_found = Len(handed)
           /\ sa.result.unique_found <= sa.result.total_found
           /\ sa.result.final_count = Len(sa.result.articles)
           /\ sa.result.final_count <= sa.result.unique_found
           /\ \A k \in DOMAIN sa.result.articles :
                  \E j \in DOMAIN handed :
                      handed[j] = [sa.result.articles[k] EXCEPT !.relevance_score = None]
           /\ \A k, l \in DOMAIN sa.result.articles :
                  sa.result.articles[k].id = sa.result.articles[l].id => k = l

\* one source raised, the other two handed over the same item: two found,
\* one of them unique, one returned
C28_Witness ==
    /\ SearchReturned
    /\ Cardinality(sa.failed) = 1
    /\ sa.timed_out = {}
    /\ sa.result.total_found = 2
    /\ sa.result.unique_found = 1
    /\ sa.result.final_count = 1
    /\ Len(sa.result.articles) = 1

StatusMoves ==
    {<<"starting", "running">>, <<"running", "completed">>,
     <<"starting", "error">>, <<"running", "error">>}

\* one step of the orchestrator as the sessions see it
SessionStep ==
    /\ Len(orc'.active_sessions) \in {Len(orc.active_sessions), Len(orc.active_sessions) + 1}
    /\ \A s \in DOMAIN orc'.active_sessions :
           IF s \in DOMAIN orc.active_sessions
           THEN LET old == orc.active_sessions[s]
                    new == orc'.active_sessions[s]
                IN /\ old.status # new.status => <<old.status, new.status>> \in StatusMoves
                   /\ old.articles_found # new.articles_found =>
                          (old.status = "running" /\ new.status = "completed")
           ELSE orc'.active_sessions[s] = [status |-> "starting", articles_found |-> 0]
    /\ orc'.stats.total_articles_processed # orc.stats.total_articles_processed =>
           \E s \in DOMAIN orc.active_sessions :
               /\ orc.active_sessions[s].status = "running"
               /\ orc'.active_sessions[s].status = "completed"
               /\ orc'.stats.total_articles_processed =
                      orc.stats.total_articles_processed + orc'.active_sessions[s].articles_found

\* C30: for every session start_discovery creates, with sessions running
\* concurrently: the status only moves starting -> running -> completed or
\* starting/running -> error, the background run eventually reaches
\* completed or error, articles_found and total_articles_processed change
\* only when the session completes, and total_sessions is the number of
\* start_discovery calls.
C30_SessionLifecycle ==
    /\ [][SessionStep]_vars
    /\ [](orc.stats.total_sessions = orc.calls /\ Len(orc.active_sessions) = orc.calls)
    /\ \A s \in 1..MaxSessions :
           [](s \in DOMAIN orc.active_sessions =>
                  <>(/\ s \in DOMAIN orc.active_sessions
                     /\ orc.active_sessions[s].status \in {"completed", "error"}))

\* the second session has completed with three articles while the first,
\* started before it, is still running
C30_Witness ==
    /\ Len(orc.active_sessions) = 2
    /\ orc.active_sessions[1].status = "running"
    /\ orc.tasks[1].current_step = 5
    /\ orc.active_sessions[2] = [status |-> "completed", articles_found |-> 3]
    /\ orc.stats = [total_sessions |-> 2, total_articles_processed |-> 3]

====
